---- MODULE Spec2Model ----
(***************************************************************************)
(* TableSortFilterPlugin: a model of the table sort / filter pipeline of   *)
(* the Lexical table plugin.                                               *)
(*                                                                         *)
(* Text is a sequence of one-character strings, so that the comparison,    *)
(* the trimming and the case folding of the code are computed character by *)
(* character, as the code computes them.                                   *)
(***************************************************************************)
EXTENDS Integers, Sequences, FiniteSets, TLC

(***************************************************************************)
(* Characters and strings (JavaScript String primitives)                   *)
(***************************************************************************)
Digits == <<"0", "1", "2", "3", "4", "5", "6", "7", "8", "9">>
Upper  == <<"A", "B", "C", "D", "E", "F", "G", "H", "I", "J", "K", "L", "M",
            "N", "O", "P", "Q", "R", "S", "T", "U", "V", "W", "X", "Y", "Z">>
Lower  == <<"a", "b", "c", "d", "e", "f", "g", "h", "i", "j", "k", "l", "m",
            "n", "o", "p", "q", "r", "s", "t", "u", "v", "w", "x", "y", "z">>

Range(s) == {s[i] : i \in 1..Len(s)}

IndexOf(s, c) == CHOOSE i \in 1..Len(s) : s[i] = c

\* String.prototype.charCodeAt for one character (ASCII).
CharCode(c) ==
  IF c \in Range(Digits) THEN 47 + IndexOf(Digits, c)
  ELSE IF c \in Range(Upper) THEN 64 + IndexOf(Upper, c)
  ELSE IF c \in Range(Lower) THEN 96 + IndexOf(Lower, c)
  ELSE CASE c = "\n" -> 10
         [] c = "\t" -> 9
         [] c = " "  -> 32
         [] c = "-"  -> 45
         [] c = "."  -> 46
         [] c = "/"  -> 47
         [] c = ":"  -> 58
         [] c = "_"  -> 95
         [] c = "~"  -> 126

\* String.prototype.toLowerCase, one character and a whole string.
LowerChar(c) == IF c \in Range(Upper) THEN Lower[IndexOf(Upper, c)] ELSE c

toLowerCase(s) == [i \in 1..Len(s) |-> LowerChar(s[i])]

IsSpace(c) == c \in {" ", "\n", "\t"}

\* String.prototype.trim
RECURSIVE TrimLeft(_)
TrimLeft(s) == IF s # <<>> /\ IsSpace(Head(s)) THEN TrimLeft(Tail(s)) ELSE s

RECURSIVE TrimRight(_)
TrimRight(s) ==
  IF s # <<>> /\ IsSpace(s[Len(s)]) THEN TrimRight(SubSeq(s, 1, Len(s) - 1)) ELSE s

trim(s) == TrimRight(TrimLeft(s))

\* String.prototype.includes: scan the start positions from the left.
RECURSIVE IncludesFrom(_, _, _)
IncludesFrom(s, sub, p) ==
  IF p + Len(sub) - 1 > Len(s) THEN FALSE
  ELSE IF SubSeq(s, p, p + Len(sub) - 1) = sub THEN TRUE
  ELSE IncludesFrom(s, sub, p + 1)

includes(s, sub) == IncludesFrom(s, sub, 1)

(***************************************************************************)
(* naturalCompare (package natural-compare, imported by utils.ts).         *)
(* Positions are 0-based as in the library.                                *)
(***************************************************************************)
\* getCode(str, pos) without its third argument: the collation code of the
\* character at pos, 0 past the end of the string.
getCode(str, pos) ==
  IF pos >= Len(str) THEN 0
  ELSE LET code == CharCode(str[pos + 1]) IN
       IF code < 45 \/ code > 127 THEN code
       ELSE IF code < 46 THEN 65
       ELSE IF code < 48 THEN code - 1
       ELSE IF code < 58 THEN code + 18
       ELSE IF code < 65 THEN code - 11
       ELSE IF code < 91 THEN code + 11
       ELSE IF code < 97 THEN code - 37
       ELSE IF code < 123 THEN code + 5
       ELSE code - 63

\* The scan of getCode(str, pos, code): the first i >= pos that holds no digit.
RECURSIVE DigitRunEnd(_, _)
DigitRunEnd(str, i) ==
  IF getCode(str, i) < 76 /\ getCode(str, i) > 65 THEN DigitRunEnd(str, i + 1) ELSE i

\* +str.slice(from, to) for a run of digits.
RECURSIVE DigitsValue(_, _, _)
DigitsValue(str, from, to) ==
  IF from >= to THEN 0
  ELSE 10 * DigitsValue(str, from, to - 1) + (CharCode(str[to]) - 48)

\* The loop for (;codeB;): two digits other than 0 start two numbers, which
\* are compared by value; every other pair of characters is compared by code.
RECURSIVE NaturalLoop(_, _, _, _)
NaturalLoop(a, b, posA, posB) ==
  LET codeA == getCode(a, posA)
      codeB == getCode(b, posB)
  IN IF codeA < 76 /\ codeB < 76 /\ codeA > 66 /\ codeB > 66
     THEN LET endA == DigitRunEnd(a, posA + 1)
              endB == DigitRunEnd(b, posB + 1)
              numA == DigitsValue(a, posA, endA)
              numB == DigitsValue(b, posB, endB)
          IN IF numA # numB THEN (IF numA < numB THEN -1 ELSE 1)
             ELSE NaturalLoop(a, b, endA, endB)
     ELSE IF codeA # codeB THEN (IF codeA < codeB THEN -1 ELSE 1)
     ELSE IF codeB = 0 THEN 0
     ELSE NaturalLoop(a, b, posA + 1, posB + 1)

\* Plain comparison by character code (String.prototype.localeCompare-like),
\* a comparison other than the library's.
RECURSIVE PlainCompare(_, _)
PlainCompare(a, b) ==
  IF a = <<>> /\ b = <<>> THEN 0
  ELSE IF a = <<>> THEN -1
  ELSE IF b = <<>> THEN 1
  ELSE IF CharCode(Head(a)) # CharCode(Head(b))
       THEN (IF CharCode(Head(a)) < CharCode(Head(b)) THEN -1 ELSE 1)
  ELSE PlainCompare(Tail(a), Tail(b))

naturalCompare(a, b) == IF a = b THEN 0 ELSE NaturalLoop(a, b, 0, 0)

(***************************************************************************)
(* Array.prototype.sort with a comparator: a stable sort (ECMAScript 2019). *)
(* keys[i] is the value the comparator reads from element i; the result is *)
(* the sequence of element indices in sorted order.                        *)
(***************************************************************************)
\* The comparator of sortTableData and sortTableCellData.
Oriented(comparison, direction) ==
  IF direction = "asc" THEN comparison ELSE 0 - comparison

Comparator(aVal, bVal, direction) == Oriented(naturalCompare(aVal, bVal), direction)

\* How many elements of sorted stay before x: x moves left past every element
\* that compares greater than it.
RECURSIVE InsertPos(_, _, _, _, _)
InsertPos(sorted, x, keys, direction, p) ==
  IF p > 0 /\ Comparator(keys[sorted[p]], keys[x], direction) > 0
  THEN InsertPos(sorted, x, keys, direction, p - 1)
  ELSE p

InsertAt(sorted, x, p) ==
  SubSeq(sorted, 1, p) \o <<x>> \o SubSeq(sorted, p + 1, Len(sorted))

RECURSIVE SortFrom(_, _, _, _)
SortFrom(keys, direction, sorted, x) ==
  IF x > Len(keys) THEN sorted
  ELSE SortFrom(keys, direction,
                InsertAt(sorted, x, InsertPos(sorted, x, keys, direction, Len(sorted))),
                x + 1)

Reverse(s) == [i \in 1..Len(s) |-> s[Len(s) + 1 - i]]

\* A sort that orders ascending and reverses the result for "desc"
\* (a sort other than the code's).
ArraySortReversing(keys, direction) ==
  IF direction = "asc" THEN SortFrom(keys, "asc", <<>>, 1)
  ELSE Reverse(SortFrom(keys, "asc", <<>>, 1))

ArraySort(keys, direction) == SortFrom(keys, direction, <<>>, 1)

(***************************************************************************)
(* utils.ts: the pure functions on table data.  data is a sequence of      *)
(* rows, row 1 the header (data[0] in the code); columnIndex is 0-based.    *)
(***************************************************************************)
\* a[columnIndex] || ''
StringAt(row, columnIndex) ==
  IF columnIndex + 1 \in DOMAIN row THEN row[columnIndex + 1] ELSE <<>>

\* a[columnIndex]?.textContent || ''
TextContentAt(row, columnIndex) ==
  IF columnIndex + 1 \in DOMAIN row THEN row[columnIndex + 1].textContent ELSE <<>>

\* data.slice(1)
DataRowsOf(data) == SubSeq(data, 2, Len(data))

\* A sort that sorts every row, the header included (other than the code's).
sortTableDataWithHeader(data, columnIndex, direction) ==
  LET keys  == [i \in 1..Len(data) |-> StringAt(data[i], columnIndex)]
      order == ArraySort(keys, direction)
  IN [i \in 1..Len(data) |-> data[order[i]]]

sortTableData(data, columnIndex, direction) ==
  LET headerRow == data[1]
      dataRows  == DataRowsOf(data)
      keys      == [i \in 1..Len(dataRows) |-> StringAt(dataRows[i], columnIndex)]
      order     == ArraySort(keys, direction)
  IN <<headerRow>> \o [i \in 1..Len(dataRows) |-> dataRows[order[i]]]

sortTableCellData(data, columnIndex, direction) ==
  LET headerRow == data[1]
      dataRows  == DataRowsOf(data)
      keys      == [i \in 1..Len(dataRows) |-> TextContentAt(dataRows[i], columnIndex)]
      order     == ArraySort(keys, direction)
  IN <<headerRow>> \o [i \in 1..Len(dataRows) |-> dataRows[order[i]]]

\* A row test that compares without folding the case (other than the code's).
RowPassesCaseSensitive(row, filters) ==
  \A columnIndex \in DOMAIN filters :
    includes(StringAt(row, columnIndex), filters[columnIndex])

\* The test of one row: Object.entries(filters).every(...).  filters is a
\* function from column indices to filter texts.
RowPasses(row, filters) ==
  \A columnIndex \in DOMAIN filters :
    includes(toLowerCase(StringAt(row, columnIndex)), toLowerCase(filters[columnIndex]))

\* A filter that tests every row of data, the header row included, and puts
\* the header row in front of the rows it keeps (other than the code's, which
\* tests data.slice(1)).
filterEveryRow(data, filters) ==
  IF DOMAIN filters = {} THEN data
  ELSE LET Keep(row) == RowPasses(row, filters)
       IN <<data[1]>> \o SelectSeq(data, Keep)

filterTableData(data, filters) ==
  IF DOMAIN filters = {} THEN data
  ELSE LET headerRow == data[1]
           dataRows  == DataRowsOf(data)
           Keep(row) == RowPasses(row, filters)
       IN <<headerRow>> \o SelectSeq(dataRows, Keep)

(***************************************************************************)
(* State.  call: one call of a pure function of utils.ts, its arguments    *)
(* and its result.                                                         *)
(***************************************************************************)
VARIABLES
  call,                   \* SpecPure: the call of a pure function
  rows,                   \* editor state: table -> its rows of cell keys
  children,               \* editor state: cell key -> its child nodes
  nodeText,               \* editor state: node -> its text
  sortStates,             \* useState: table -> sort state
  originalTableChildren,  \* useState: table -> captured children
  handler,                \* the state the registered handleClick closed over
  sortClass,              \* DOM: table -> column -> sort class of the header
  edits,                  \* number of edits the user has made
  filterState,            \* useState: column -> filter text (all tables)
  originalTableData,      \* useState: table -> texts stored at the first sort
  filterStates,           \* useState: table -> the filter of the table
  activeFilterDropdown,   \* useState: the header the filter dropdown is open for
  hiddenRows,             \* DOM: table -> the rows the view does not show
  listeners,              \* DOM: the event listeners registered on the targets
  throttled,              \* the number of functions throttle() has returned
  mounted,                \* TableStickyScrollerPlugin: its effect is active
  editorScroller,         \* DOM: the editor scroller element is in the document
  tableElements,          \* DOM: table element -> where it is, and its sticky id
  containers,             \* DOM: the sticky header containers in document.body
  stickyHeaders,          \* useState of TableHeaderStickyPlugin: the ids in the map
  stickyHeadersRef,       \* useRef: the map the callbacks read
  timers,                 \* the setTimeout callbacks that have not run yet
  instance,               \* the number of mounts of TableHeaderStickyPlugin
  hist                    \* history: the last event and the run of clicks

pureVars == <<call>>

cmdVars == <<filterState, originalTableData>>

viewVars == <<filterStates, activeFilterDropdown, hiddenRows>>

stickyVars == <<listeners, throttled, mounted, editorScroller>>

headerVars == <<tableElements, containers, stickyHeaders, stickyHeadersRef, timers, instance>>

pluginVars == <<rows, children, nodeText, sortStates, originalTableChildren, handler,
                sortClass, edits, filterState, originalTableData, filterStates,
                activeFilterDropdown, hiddenRows, listeners, throttled, mounted,
                editorScroller, tableElements, containers, stickyHeaders,
                stickyHeadersRef, timers, instance, hist>>

vars == <<call, rows, children, nodeText, sortStates, originalTableChildren, handler,
          sortClass, edits, filterState, originalTableData, filterStates,
          activeFilterDropdown, hiddenRows, listeners, throttled, mounted,
          editorScroller, tableElements, containers, stickyHeaders,
          stickyHeadersRef, timers, instance, hist>>

(***************************************************************************)
(* Inputs of the pure functions                                            *)
(***************************************************************************)
sEmpty   == <<>>
sSpace   == <<" ">>
sA       == <<"a">>
sB       == <<"b">>
sX       == <<"x">>
sY       == <<"y">>
sName    == <<"N", "a", "m", "e">>
sTag     == <<"T", "a", "g">>
sItem1   == <<"i", "t", "e", "m", "1">>
sItem2   == <<"i", "t", "e", "m", "2">>
sItem10  == <<"i", "t", "e", "m", "1", "0">>
sV120    == <<"v", "1", ".", "2", ".", "0">>
sV195    == <<"v", "1", ".", "9", ".", "5">>
sV1100   == <<"v", "1", ".", "1", "0", ".", "0">>
s010     == <<"0", "1", "0">>
s9       == <<"9">>
sAlice   == <<"A", "l", "i", "c", "e">>
sBob     == <<"B", "o", "b">>
sCharlie == <<"C", "h", "a", "r", "l", "i", "e">>
sLi      == <<"l", "i">>
sLI      == <<"L", "I">>
s10      == <<"1", "0">>

\* The largest number of data rows of an input, and the largest column index
\* asked for (one past the last column of a row).
PureMaxRows == 3
PureMaxCol  == 2

SeqsUpTo(S, n) == UNION {[1..k -> S] : k \in 0..n}

NaturalRows == {<<sItem1>>, <<sItem2>>, <<sItem10>>, <<sV120>>, <<sV195>>,
                <<sV1100>>, <<s010>>, <<s9>>, <<s10>>}

TieRows == {<<k, g>> : k \in {sEmpty, sSpace, sA, sB}, g \in {sX, sY}} \cup {<<sA>>}

FilterRows == {<<n, g>> : n \in {sAlice, sBob, sCharlie}, g \in {sLI, sEmpty}}
              \cup {<<sBob>>}

PureInputs ==
  {<<<<sName>>>> \o dataRows : dataRows \in SeqsUpTo(NaturalRows, PureMaxRows)}
  \cup {<<<<sName, sTag>>>> \o dataRows : dataRows \in SeqsUpTo(TieRows, PureMaxRows)}
  \cup {<<<<sName, sTag>>>> \o dataRows : dataRows \in SeqsUpTo(FilterRows, PureMaxRows)}

FilterValues == {sLi, sB, sEmpty}

\* Filter states: none, one column, two columns.
PureFilters == UNION {[cols -> FilterValues] : cols \in SUBSET {0, 1}}

Directions == {"asc", "desc"}

NoCall == [fn |-> "none", columnIndex |-> 0, direction |-> "asc",
           filters |-> <<>>, result |-> <<>>]

\* $getTableCellData restricted to what sortTableCellData reads: the text of
\* each cell and the key of the cell, here its position in the input.
CellDataOf(data) ==
  [r \in 1..Len(data) |->
     [c \in 1..Len(data[r]) |-> [textContent |-> data[r][c], cellKey |-> <<r, c>>]]]

\* TableHeaderStickyPlugin is not mounted.
HeaderIdle ==
  /\ tableElements = <<>>
  /\ containers = {}
  /\ stickyHeaders = {}
  /\ stickyHeadersRef = {}
  /\ timers = {}
  /\ instance = 0

\* TableStickyScrollerPlugin is not mounted.
StickyIdle ==
  /\ HeaderIdle
  /\ listeners = {}
  /\ throttled = 0
  /\ mounted = FALSE
  /\ editorScroller = FALSE

\* The variables of the plugin, unused by the calls of the pure functions.
\* The variant with a filter per table is not mounted.
ViewIdle ==
  /\ StickyIdle
  /\ filterStates = <<>>
  /\ activeFilterDropdown = <<>>
  /\ hiddenRows = <<>>

PluginIdle ==
  /\ ViewIdle
  /\ rows = <<>>
  /\ children = <<>>
  /\ nodeText = <<>>
  /\ sortStates = <<>>
  /\ originalTableChildren = <<>>
  /\ handler = <<>>
  /\ sortClass = <<>>
  /\ edits = 0
  /\ filterState = <<>>
  /\ originalTableData = <<>>
  /\ hist = <<>>

InitPure ==
  /\ call \in {[NoCall EXCEPT !.fn = "input"] @@ [data |-> d] : d \in PureInputs}
  /\ PluginIdle

CallSortTableData(columnIndex, direction) ==
  /\ call.fn = "input"
  /\ call' = [call EXCEPT !.fn = "sortTableData",
                          !.columnIndex = columnIndex,
                          !.direction = direction,
                          !.result = sortTableData(call.data, columnIndex, direction)]
  /\ UNCHANGED pluginVars

CallSortTableCellData(columnIndex, direction) ==
  /\ call.fn = "input"
  /\ call' = [call EXCEPT !.fn = "sortTableCellData",
                          !.columnIndex = columnIndex,
                          !.direction = direction,
                          !.result = sortTableCellData(CellDataOf(call.data),
                                                       columnIndex, direction)]
  /\ UNCHANGED pluginVars

CallFilterTableData(filters) ==
  /\ call.fn = "input"
  /\ call' = [call EXCEPT !.fn = "filterTableData",
                          !.filters = filters,
                          !.result = filterTableData(call.data, filters)]
  /\ UNCHANGED pluginVars

NextPure ==
  \/ \E columnIndex \in 0..PureMaxCol, direction \in Directions :
       CallSortTableData(columnIndex, direction)
  \/ \E columnIndex \in 0..PureMaxCol, direction \in Directions :
       CallSortTableCellData(columnIndex, direction)
  \/ \E filters \in PureFilters : CallFilterTableData(filters)

SpecPure == InitPure /\ [][NextPure]_vars

(***************************************************************************)
(* The editor state the plugin works on.  A table is a sequence of rows of *)
(* cell keys, row 1 the header; a cell holds a sequence of child nodes (its *)
(* paragraphs); a node has a text.  ed is the record [children, text].      *)
(***************************************************************************)
Tables == {1, 2}

NumCols(t) == IF t = 1 THEN 2 ELSE 1

NumDataRows(t) == IF t = 1 THEN 3 ELSE 2

\* The rows a table starts with: a header row and NumDataRows(t) data rows.
InitialRows(t) ==
  [r \in 1..(NumDataRows(t) + 1) |-> [c \in 1..NumCols(t) |-> <<t, r - 1, c - 1>>]]

\* tableNode.getChildren() and row.getChildren(): the cell keys of table t.
TableRows(t) == rows[t]

CellsOf(t) == {TableRows(t)[r][c] : r \in DOMAIN TableRows(t), c \in 1..NumCols(t)}

\* The nodes attached to the cells.
NodesOfCells(ch, cells) == UNION {Range(ch[cell]) : cell \in cells}

\* ElementNode.getTextContent: the texts of the block children, joined by a
\* double line break.
RECURSIVE JoinBlocks(_)
JoinBlocks(texts) ==
  IF texts = <<>> THEN <<>>
  ELSE IF Len(texts) = 1 THEN texts[1]
  ELSE texts[1] \o <<"\n", "\n">> \o JoinBlocks(Tail(texts))

getTextContent(ed, cell) ==
  JoinBlocks([i \in 1..Len(ed.children[cell]) |-> ed.text[ed.children[cell][i]]])

Without(nodes, node) == SelectSeq(nodes, LAMBDA n : n # node)

\* ElementNode.clear: the children of the cell are detached.
clear(ed, cell) == [ed EXCEPT !.children[cell] = <<>>]

\* ElementNode.append: the node leaves the parent it has and becomes the last
\* child of the cell.
append(ed, cell, node) ==
  [ed EXCEPT !.children =
     [k \in DOMAIN @ |-> IF k = cell THEN Without(@[k], node) \o <<node>>
                         ELSE Without(@[k], node)]]

\* children.forEach((child) => cell.append(child))
RECURSIVE AppendAll(_, _, _)
AppendAll(ed, cell, nodes) ==
  IF nodes = <<>> THEN ed
  ELSE AppendAll(append(ed, cell, Head(nodes)), cell, Tail(nodes))

\* $getTableCellData: the text and the key of every cell (cellNode is the key).
getTableCellData(ed, t) ==
  [r \in DOMAIN TableRows(t) |->
     [c \in DOMAIN TableRows(t)[r] |->
        [textContent |-> getTextContent(ed, TableRows(t)[r][c]),
         cellKey     |-> TableRows(t)[r][c]]]]

\* $captureOriginalTableChildren: position "rowIndex-cellIndex" -> a copy of
\* the array of the cell's children (the nodes themselves are not copied).
captureOriginalTableChildren(ed, t) ==
  [pos \in {<<r - 1, c - 1>> : r \in DOMAIN TableRows(t), c \in 1..NumCols(t)} |->
     ed.children[TableRows(t)[pos[1] + 1][pos[2] + 1]]]

\* $restoreOriginalTableChildren, cell k of the table in row-major order
\* onwards: a cell that has an entry is cleared and given the entry's nodes.
RECURSIVE RestoreFrom(_, _, _, _)
RestoreFrom(ed, t, originalChildren, k) ==
  IF k >= Len(TableRows(t)) * NumCols(t) THEN ed
  ELSE LET rowIndex  == k \div NumCols(t)
           cellIndex == k % NumCols(t)
           cell      == TableRows(t)[rowIndex + 1][cellIndex + 1]
       IN IF <<rowIndex, cellIndex>> \in DOMAIN originalChildren
          THEN RestoreFrom(AppendAll(clear(ed, cell), cell,
                                     originalChildren[<<rowIndex, cellIndex>>]),
                           t, originalChildren, k + 1)
          ELSE RestoreFrom(ed, t, originalChildren, k + 1)

\* A restore that leaves the table as it is (other than the code's).
restoreNothing(ed, t, originalChildren) == ed

\* A restore that rewrites one cell per call, a cell whose content is not its
\* entry's (other than the code's, which rewrites every cell in one call).
restoreOneCell(ed, t, originalChildren) ==
  LET wrong == {pos \in DOMAIN originalChildren :
                  /\ pos[1] + 1 \in DOMAIN TableRows(t)
                  /\ ed.children[TableRows(t)[pos[1] + 1][pos[2] + 1]] # originalChildren[pos]}
  IN IF wrong = {} THEN ed
     ELSE \* one of the cells that are wrong
          (LET pos  == CHOOSE p \in wrong : TRUE
               cell == TableRows(t)[pos[1] + 1][pos[2] + 1]
           IN AppendAll(clear(ed, cell), cell, originalChildren[pos]))

restoreOriginalTableChildren(ed, t, originalChildren) ==
  RestoreFrom(ed, t, originalChildren, 0)

\* Step 1 without the test of the key of the target (other than the code's):
\* a cell that is already in place is an entry with its own children.
contentAlwaysMoved(ed, t, data, rowIndex, cellIndex) ==
  LET targetCell == TableRows(t)[rowIndex + 1][cellIndex + 1]
      cellData   == data[rowIndex + 1][cellIndex + 1]
  IN IF cellData.cellKey \in CellsOf(t)
     THEN [targetCell |-> targetCell, kind |-> "nodes",
           nodes |-> ed.children[cellData.cellKey], text |-> <<>>]
     ELSE [targetCell |-> targetCell, kind |-> "text",
           nodes |-> <<>>, text |-> cellData.textContent]

\* $updateTableDataWithDirectMovement, step 1: what target cell
\* (rowIndex, cellIndex) is to receive, read before any cell is written.
ContentToMove(ed, t, data, rowIndex, cellIndex) ==
  LET targetCell == TableRows(t)[rowIndex + 1][cellIndex + 1]
      cellData   == data[rowIndex + 1][cellIndex + 1]
      found      == cellData.cellKey \in CellsOf(t)
  IN IF cellData.cellKey # targetCell
     THEN IF found
          THEN [targetCell |-> targetCell, kind |-> "nodes",
                nodes |-> ed.children[cellData.cellKey], text |-> <<>>]
          ELSE IF trim(cellData.textContent) # <<>>
          THEN [targetCell |-> targetCell, kind |-> "text",
                nodes |-> <<>>, text |-> cellData.textContent]
          ELSE [targetCell |-> targetCell, kind |-> "nodes", nodes |-> <<>>, text |-> <<>>]
     ELSE [targetCell |-> targetCell, kind |-> "nodes", nodes |-> <<>>, text |-> <<>>]

\* Step 2 for one entry: a cell that receives nodes, or a text, is cleared and
\* written; a cell that receives nothing is left alone.
ApplyContent(ed, entry) ==
  IF entry.kind = "nodes" /\ entry.nodes # <<>>
  THEN AppendAll(clear(ed, entry.targetCell), entry.targetCell, entry.nodes)
  ELSE IF entry.kind = "text" /\ trim(entry.text) # <<>>
  THEN LET paragraph == <<"p", entry.targetCell>>
       IN [children |-> [ed.children EXCEPT ![entry.targetCell] = <<paragraph>>],
           text     |-> (paragraph :> entry.text) @@ ed.text]
  ELSE ed

RECURSIVE ApplyAll(_, _)
ApplyAll(ed, contentToMove) ==
  IF contentToMove = <<>> THEN ed
  ELSE ApplyAll(ApplyContent(ed, Head(contentToMove)), Tail(contentToMove))

\* The entries of step 1 from entry k on, in row-major order of data; rows and
\* cells that the table does not have are skipped.
RECURSIVE CollectFrom(_, _, _, _, _)
CollectFrom(ed, t, data, width, k) ==
  IF k >= Len(data) * width THEN <<>>
  ELSE LET rowIndex  == k \div width
           cellIndex == k % width
       IN IF /\ rowIndex < Len(TableRows(t))
             /\ cellIndex < Len(data[rowIndex + 1])
             /\ cellIndex < Len(TableRows(t)[rowIndex + 1])
          THEN <<ContentToMove(ed, t, data, rowIndex, cellIndex)>>
               \o CollectFrom(ed, t, data, width, k + 1)
          ELSE CollectFrom(ed, t, data, width, k + 1)

\* A write-back that copies nothing (other than the code's).
updateNothing(ed, t, data) == ed

updateTableDataWithDirectMovement(ed, t, data) ==
  ApplyAll(ed, CollectFrom(ed, t, data, NumCols(t), 0))

\* The operations one call of $updateTableDataWithDirectMovement makes on the
\* cells, in the order the code makes them.  A "read" is getTextContent or
\* getChildren of the cell, "clear" and "append" are the writes.
CellOp(op, cell) == [op |-> op, cell |-> cell]

\* $getTableCellData(tableNode), before step 1: the text of every cell.
ReadTableOps(t) ==
  LET width == NumCols(t)
  IN [k \in 1..(Len(TableRows(t)) * width) |->
        CellOp("read", TableRows(t)[((k - 1) \div width) + 1][((k - 1) % width) + 1])]

\* Step 1 for one position: sourceCell.getChildren() when a source is found.
EntryReads(t, data, rowIndex, cellIndex) ==
  LET targetCell == TableRows(t)[rowIndex + 1][cellIndex + 1]
      cellData   == data[rowIndex + 1][cellIndex + 1]
  IN IF cellData.cellKey # targetCell /\ cellData.cellKey \in CellsOf(t)
     THEN <<CellOp("read", cellData.cellKey)>>
     ELSE <<>>

\* Step 2 for one entry: targetCell.clear() and one append per moved node, or
\* one append of the new paragraph.
EntryWrites(entry) ==
  IF entry.kind = "nodes" /\ entry.nodes # <<>>
  THEN <<CellOp("clear", entry.targetCell)>>
       \o [i \in 1..Len(entry.nodes) |-> CellOp("append", entry.targetCell)]
  ELSE IF entry.kind = "text" /\ trim(entry.text) # <<>>
  THEN <<CellOp("clear", entry.targetCell), CellOp("append", entry.targetCell)>>
  ELSE <<>>

RECURSIVE CollectOps(_, _, _, _)
CollectOps(t, data, width, k) ==
  IF k >= Len(data) * width THEN <<>>
  ELSE LET rowIndex  == k \div width
           cellIndex == k % width
       IN IF /\ rowIndex < Len(TableRows(t))
             /\ cellIndex < Len(data[rowIndex + 1])
             /\ cellIndex < Len(TableRows(t)[rowIndex + 1])
          THEN EntryReads(t, data, rowIndex, cellIndex) \o CollectOps(t, data, width, k + 1)
          ELSE CollectOps(t, data, width, k + 1)

RECURSIVE ApplyOps(_)
ApplyOps(contentToMove) ==
  IF contentToMove = <<>> THEN <<>>
  ELSE EntryWrites(Head(contentToMove)) \o ApplyOps(Tail(contentToMove))

\* A single pass that reads the source of a position and writes the target at
\* once (other than the code's).
RECURSIVE InterleavedFrom(_, _, _, _, _)
InterleavedFrom(ed, t, data, width, k) ==
  IF k >= Len(data) * width THEN <<>>
  ELSE LET rowIndex  == k \div width
           cellIndex == k % width
       IN IF /\ rowIndex < Len(TableRows(t))
             /\ cellIndex < Len(data[rowIndex + 1])
             /\ cellIndex < Len(TableRows(t)[rowIndex + 1])
          THEN EntryReads(t, data, rowIndex, cellIndex)
               \o EntryWrites(ContentToMove(ed, t, data, rowIndex, cellIndex))
               \o InterleavedFrom(ed, t, data, width, k + 1)
          ELSE InterleavedFrom(ed, t, data, width, k + 1)

interleavedOps(ed, t, data) ==
  ReadTableOps(t) \o InterleavedFrom(ed, t, data, NumCols(t), 0)

directMovementOps(ed, t, data) ==
  ReadTableOps(t)
  \o CollectOps(t, data, NumCols(t), 0)
  \o ApplyOps(CollectFrom(ed, t, data, NumCols(t), 0))

(***************************************************************************)
(* TableSortFilterPlugin with capture / restore of the cells' children     *)
(* (handleClick sorts the live table and restores it on the third click).  *)
(***************************************************************************)
\* No sort state for the table (null, or no entry in the map).
NoSort == [columnIndex |-> -1, direction |-> "none"]

\* No entry for the table in originalTableChildren.
NoSnapshot == <<>>

SortState(columnIndex, direction) == [columnIndex |-> columnIndex, direction |-> direction]

\* A handler that toggles between ascending and descending and never
\* cancels (other than the code's).
ToggleSortState(currentSortState, columnIndex) ==
  IF currentSortState # NoSort /\ currentSortState.columnIndex = columnIndex
     /\ currentSortState.direction = "asc"
  THEN SortState(columnIndex, "desc")
  ELSE SortState(columnIndex, "asc")

\* Determine next state: null -> asc -> desc -> null (cycle).
NextSortState(currentSortState, columnIndex) ==
  IF currentSortState = NoSort \/ currentSortState.columnIndex # columnIndex
  THEN SortState(columnIndex, "asc")
  ELSE IF currentSortState.direction = "asc"
  THEN SortState(columnIndex, "desc")
  ELSE NoSort

\* The class handleClick leaves on the header cells of the table.
SortClassesAfter(t, columnIndex, newSortState) ==
  [c \in 0..(NumCols(t) - 1) |->
     IF newSortState # NoSort /\ c = columnIndex
     THEN (IF newSortState.direction = "asc" THEN "sort-asc" ELSE "sort-desc")
     ELSE ""]

Editor == [children |-> children, text |-> nodeText]

\* The content of table t, cell by cell: the nodes and their texts.
TableContent(ed, t) ==
  [r \in DOMAIN TableRows(t) |->
     [c \in DOMAIN TableRows(t)[r] |->
        [i \in 1..Len(ed.children[TableRows(t)[r][c]]) |->
           <<ed.children[TableRows(t)[r][c]][i],
             ed.text[ed.children[TableRows(t)[r][c]][i]]>>]]]

\* The largest number of paragraphs the user adds.
MaxEdits == 1

\* The paragraphs a cell starts with, as texts.  shape gives the paragraphs of
\* column 0 of the data rows of table 1.
InitialParagraphs(cell, shape) ==
  LET t == cell[1]
      rowIndex == cell[2]
      cellIndex == cell[3]
  IN IF rowIndex = 0 THEN (IF cellIndex = 0 THEN <<sName>> ELSE <<sTag>>)
     ELSE IF t = 1 /\ cellIndex = 0 THEN shape[rowIndex]
     ELSE IF t = 1 THEN (IF rowIndex = 2 THEN <<sX, sY>> ELSE <<sX>>)
     ELSE (IF rowIndex = 1 THEN <<sB>> ELSE <<sA>>)

CellShapes == {<<sA>>, <<sB>>, <<sEmpty>>, <<>>}

\* The last data row of table 1 starts with "a" in column 0.
InitialShapes == {shape \in [1..NumDataRows(1) -> CellShapes] : shape[NumDataRows(1)] = <<sA>>}

AllCells ==
  UNION {{InitialRows(t)[r][c] : r \in DOMAIN InitialRows(t), c \in 1..NumCols(t)} :
         t \in Tables}

InitialNodes(shape) ==
  UNION {{cell \o <<i>> : i \in 1..Len(InitialParagraphs(cell, shape))} : cell \in AllCells}

NoHistory ==
  [kind |-> "init", table |-> 0, columnIndex |-> 0, prevSort |-> NoSort,
   count |-> 0, before |-> <<>>, dirty |-> {}]

InitPlugin ==
  /\ ViewIdle
  /\ \E shape \in InitialShapes :
       /\ children = [cell \in AllCells |->
                        [i \in 1..Len(InitialParagraphs(cell, shape)) |-> cell \o <<i>>]]
       /\ nodeText = [n \in InitialNodes(shape) |->
                        InitialParagraphs(<<n[1], n[2], n[3]>>, shape)[n[4]]]
  /\ rows = [t \in Tables |-> InitialRows(t)]
  /\ sortStates = [t \in Tables |-> NoSort]
  /\ originalTableChildren = [t \in Tables |-> NoSnapshot]
  /\ handler = [sortStates |-> [t \in Tables |-> NoSort],
                originalTableChildren |-> [t \in Tables |-> NoSnapshot]]
  /\ sortClass = [t \in Tables |-> [c \in 0..(NumCols(t) - 1) |-> ""]]
  /\ edits = 0
  /\ filterState = <<>>
  /\ originalTableData = <<>>
  /\ hist = NoHistory
  /\ call = NoCall

\* The handler registered by the last run of the effect reads the state of
\* the render that registered it.
HandlerStale ==
  handler # [sortStates |-> sortStates, originalTableChildren |-> originalTableChildren]

\* React renders the component and the effect registers a new handleClick
\* that closes over the new sortStates and originalTableChildren.
Render ==
  /\ HandlerStale
  /\ handler' = [sortStates |-> sortStates,
                 originalTableChildren |-> originalTableChildren]
  /\ UNCHANGED viewVars
  /\ UNCHANGED stickyVars
  /\ UNCHANGED headerVars
  /\ UNCHANGED <<rows, call, children, nodeText, sortStates, originalTableChildren,
                 sortClass, edits, hist>>
  /\ UNCHANGED cmdVars

\* handleClick on the sort control of column columnIndex of table t.
HandleClick(t, columnIndex) ==
  LET currentSortState == handler.sortStates[t]
      newSortState     == NextSortState(currentSortState, columnIndex)
      originalChildren == handler.originalTableChildren[t]
      continues == /\ hist.kind = "click"
                   /\ hist.table = t
                   /\ hist.columnIndex = columnIndex
                   /\ hist.count \in {1, 2}
  IN /\ originalTableChildren' =
          IF handler.originalTableChildren[t] = NoSnapshot
          THEN [originalTableChildren EXCEPT ![t] = captureOriginalTableChildren(Editor, t)]
          ELSE originalTableChildren
     /\ \E after \in
          {IF newSortState # NoSort
           THEN updateTableDataWithDirectMovement(
                  Editor, t,
                  sortTableCellData(getTableCellData(Editor, t), columnIndex,
                                    newSortState.direction))
           ELSE IF originalChildren # NoSnapshot
           THEN restoreOriginalTableChildren(Editor, t, originalChildren)
           ELSE Editor} :
          /\ children' = after.children
          /\ nodeText' = after.text
     /\ sortClass' = [sortClass EXCEPT ![t] = SortClassesAfter(t, columnIndex, newSortState)]
     /\ sortStates' = [sortStates EXCEPT ![t] = newSortState]
     /\ hist' = [kind |-> "click", table |-> t, columnIndex |-> columnIndex,
                 prevSort |-> sortStates[t],
                 count |-> IF continues THEN hist.count + 1
                           ELSE IF sortStates[t] = NoSort THEN 1 ELSE 0,
                 before |-> IF continues THEN hist.before
                            ELSE IF sortStates[t] = NoSort THEN TableContent(Editor, t)
                            ELSE <<>>,
                 dirty |-> hist.dirty]
     /\ UNCHANGED viewVars
     /\ UNCHANGED stickyVars
     /\ UNCHANGED headerVars
     /\ UNCHANGED <<rows, call, handler, edits>>
     /\ UNCHANGED cmdVars

\* The user, in the host editor, adds a paragraph at the end of the cell of
\* column 0 of a data row.
UserAddsParagraph(t, rowIndex) ==
  LET cell == <<t, rowIndex, 0>>
      node == <<"new", edits + 1>>
  IN /\ edits < MaxEdits
     /\ edits' = edits + 1
     /\ children' = [children EXCEPT ![cell] = @ \o <<node>>]
     /\ nodeText' = (node :> sB) @@ nodeText
     /\ hist' = [NoHistory EXCEPT !.kind = "edit", !.table = t,
                   !.dirty = IF originalTableChildren[t] # NoSnapshot
                             THEN hist.dirty \cup {t} ELSE hist.dirty]
     /\ UNCHANGED viewVars
     /\ UNCHANGED stickyVars
     /\ UNCHANGED headerVars
     /\ UNCHANGED <<rows, call, sortStates, originalTableChildren, handler, sortClass>>
     /\ UNCHANGED cmdVars

\* The data rows of table 1 the user edits.
EditedRows == {1, 2}

\* One event at a time: after a click React renders and re-registers the
\* handler (a microtask) before the browser delivers the next event.
Next ==
  \/ Render
  \/ /\ ~HandlerStale
     /\ \E t \in Tables : \E columnIndex \in 0..(NumCols(t) - 1) : HandleClick(t, columnIndex)
  \/ /\ ~HandlerStale
     /\ \E rowIndex \in EditedRows : UserAddsParagraph(1, rowIndex)

Init == InitPlugin

Spec == Init /\ [][Next]_vars

\* Clicks that are dispatched one after the other in one task (two click
\* events from a script, a test driver or a double click that is queued):
\* the second one runs the handleClick that was registered before the first,
\* because the effect registers the new one only after React has rendered.
NextRapid ==
  \/ Render
  \/ \E t \in Tables : \E columnIndex \in 0..(NumCols(t) - 1) : HandleClick(t, columnIndex)

\* The tables the rapid clicks start from: row 1 of table 1 holds "b" in
\* column 0, row 2 a paragraph of any text.
InitRapid ==
  /\ InitPlugin
  /\ children[<<1, 1, 0>>] # <<>>
  /\ nodeText[<<1, 1, 0, 1>>] = sB
  /\ children[<<1, 2, 0>>] # <<>>

SpecRapid == InitRapid /\ [][NextRapid]_vars

(***************************************************************************)
(* TableSortFilterPlugin with the three commands and a click handler that  *)
(* work on the texts of the cells ($getTableData / $updateTableData).      *)
(***************************************************************************)
\* $getTableData: the text of every cell, row by row.
getTableData(ed, t) ==
  [r \in DOMAIN TableRows(t) |->
     [c \in DOMAIN TableRows(t)[r] |-> getTextContent(ed, TableRows(t)[r][c])]]

\* $updateTableData on one cell: the cell is cleared and, when the text is
\* not blank, given one new paragraph with the text.
WriteCell(ed, cell, cellText) ==
  IF trim(cellText) # <<>>
  THEN [children |-> [ed.children EXCEPT ![cell] = <<<<"p", cell>>>>],
        text     |-> (<<"p", cell>> :> cellText) @@ ed.text]
  ELSE clear(ed, cell)

\* $updateTableData from entry k of data on, in row-major order; rows and
\* cells that the table does not have are skipped, rows of the table beyond
\* the rows of data are not visited.
RECURSIVE UpdateFrom(_, _, _, _, _)
UpdateFrom(ed, t, data, width, k) ==
  IF k >= Len(data) * width THEN ed
  ELSE LET rowIndex  == k \div width
           cellIndex == k % width
       IN IF /\ rowIndex < Len(TableRows(t))
             /\ cellIndex < Len(data[rowIndex + 1])
             /\ cellIndex < Len(TableRows(t)[rowIndex + 1])
          THEN UpdateFrom(WriteCell(ed, TableRows(t)[rowIndex + 1][cellIndex + 1],
                                    data[rowIndex + 1][cellIndex + 1]),
                          t, data, width, k + 1)
          ELSE UpdateFrom(ed, t, data, width, k + 1)

\* An update that writes the first table of the document whatever table was
\* clicked (other than the code's, which writes the table it was given).
updateFirstTable(ed, t, data) == UpdateFrom(ed, 1, data, NumCols(t), 0)

updateTableData(ed, t, data) == UpdateFrom(ed, t, data, NumCols(t), 0)

\* The end of editor.update: nodes that are attached to no cell are dropped.
Commit(ed) ==
  LET attached == UNION {Range(ed.children[cell]) : cell \in DOMAIN ed.children}
  IN [children |-> ed.children,
      text     |-> [n \in DOMAIN ed.text \cap attached |-> ed.text[n]]]

\* $isTableSelection(selection) fails: the selection is in no table.
NoSelection == 0

Selections == Tables \cup {NoSelection}

\* No entry for the table in originalTableData.
NoData == <<>>

NoFilters == <<>>

\* newFilters of the FILTER_TABLE_COLUMN_COMMAND handler.
NewFilters(prev, columnIndex, filterValue) ==
  IF trim(filterValue) = <<>>
  THEN [c \in DOMAIN prev \ {columnIndex} |-> prev[c]]
  ELSE [c \in DOMAIN prev \cup {columnIndex} |->
          IF c = columnIndex THEN filterValue ELSE prev[c]]

AllTableData == [t \in Tables |-> getTableData(Editor, t)]

\* History of the command variant: the last event, the texts of its table
\* before it, and the texts of all tables when the filter state was last
\* empty before a filter was set.
CmdHistory(kind, t, filters, sorts) ==
  [kind |-> kind, table |-> t, steps |-> hist.steps + 1,
   before |-> IF t \in Tables THEN getTableData(Editor, t) ELSE <<>>,
   filters |-> filters,
   wasFiltered |-> filterState # NoFilters,
   unfiltered |-> IF filterState = NoFilters THEN AllTableData ELSE hist.unfiltered,
   sortedSince |-> IF filterState = NoFilters THEN FALSE ELSE hist.sortedSince \/ sorts]

\* The texts the cells of the tables start with.
InitialText(cell, names) ==
  LET t == cell[1]
      rowIndex == cell[2]
      cellIndex == cell[3]
  IN IF rowIndex = 0 THEN (IF cellIndex = 0 THEN sName ELSE sTag)
     ELSE IF t = 1 /\ cellIndex = 0 THEN names[rowIndex]
     ELSE IF t = 1 THEN (IF rowIndex = 2 THEN sX ELSE sB)
     ELSE (IF rowIndex = 1 THEN sB ELSE sA)

InitialNames == {<<sAlice, sBob, sCharlie>>, <<sCharlie, sAlice, sBob>>}

InitCmd ==
  /\ ViewIdle
  /\ \E names \in InitialNames :
       /\ children = [cell \in AllCells |-> <<<<"p", cell>>>>]
       /\ nodeText = [n \in {<<"p", cell>> : cell \in AllCells} |->
                        InitialText(n[2], names)]
  /\ rows = [t \in Tables |-> InitialRows(t)]
  /\ sortStates = [t \in Tables |-> NoSort]
  /\ originalTableData = [t \in Tables |-> NoData]
  /\ filterState = NoFilters
  /\ handler = [sortStates |-> [t \in Tables |-> NoSort],
                originalTableData |-> [t \in Tables |-> NoData]]
  /\ sortClass = [t \in Tables |-> [c \in 0..(NumCols(t) - 1) |-> ""]]
  /\ originalTableChildren = <<>>
  /\ edits = 0
  /\ hist = [kind |-> "init", table |-> NoSelection, steps |-> 0, before |-> <<>>,
             filters |-> NoFilters, wasFiltered |-> FALSE,
             unfiltered |-> <<>>, sortedSince |-> FALSE]
  /\ call = NoCall

\* SORT_TABLE_COLUMN_COMMAND with the selection in table sel, or in no table.
SortCommand(sel, columnIndex, direction) ==
  /\ \E after \in
       {IF sel \in Tables
        THEN Commit(updateTableData(
               Editor, sel,
               sortTableData(getTableData(Editor, sel), columnIndex, direction)))
        ELSE Editor} :
       /\ children' = after.children
       /\ nodeText' = after.text
  /\ sortStates' = IF sel \in Tables
                 THEN [sortStates EXCEPT ![sel] = SortState(columnIndex, direction)]
                 ELSE sortStates
  /\ hist' = CmdHistory("sort", sel, filterState, sel \in Tables)
  /\ UNCHANGED viewVars
  /\ UNCHANGED stickyVars
  /\ UNCHANGED headerVars
  /\ UNCHANGED <<rows, call, originalTableChildren, handler, sortClass, edits,
                 filterState, originalTableData>>

\* FILTER_TABLE_COLUMN_COMMAND with the selection in table sel, or in no
\* table.
FilterCommand(sel, columnIndex, filterValue) ==
  LET newFilters == NewFilters(filterState, columnIndex, filterValue)
  IN /\ \E after \in
          {IF sel \in Tables
           THEN Commit(updateTableData(
                  Editor, sel,
                  filterTableData(getTableData(Editor, sel), newFilters)))
           ELSE Editor} :
          /\ children' = after.children
          /\ nodeText' = after.text
     /\ filterState' = newFilters
     /\ hist' = CmdHistory("filter", sel, newFilters, FALSE)
     /\ UNCHANGED viewVars
     /\ UNCHANGED stickyVars
     /\ UNCHANGED headerVars
     /\ UNCHANGED <<rows, call, sortStates, originalTableChildren, handler, sortClass,
                    edits, originalTableData>>

\* CLEAR_TABLE_FILTERS_COMMAND.
ClearCommand ==
  /\ filterState' = NoFilters
  /\ sortStates' = [t \in Tables |-> NoSort]
  /\ originalTableData' = [t \in Tables |-> NoData]
  /\ hist' = CmdHistory("clear", NoSelection, NoFilters, FALSE)
  /\ UNCHANGED viewVars
  /\ UNCHANGED stickyVars
  /\ UNCHANGED headerVars
  /\ UNCHANGED <<rows, call, children, nodeText, originalTableChildren, handler,
                 sortClass, edits>>

CmdHandlerStale ==
  handler # [sortStates |-> sortStates, originalTableData |-> originalTableData]

\* React renders the component and the effect registers a new handleClick
\* that closes over the new sortStates and originalTableData.
RenderCmd ==
  /\ CmdHandlerStale
  /\ handler' = [sortStates |-> sortStates, originalTableData |-> originalTableData]
  /\ UNCHANGED viewVars
  /\ UNCHANGED stickyVars
  /\ UNCHANGED headerVars
  /\ UNCHANGED <<rows, call, children, nodeText, sortStates, originalTableChildren,
                 sortClass, edits, filterState, originalTableData, hist>>

\* handleClick of this variant on the sort area of column columnIndex of
\* table t.
HandleClickCmd(t, columnIndex) ==
  LET currentSortState == handler.sortStates[t]
      data             == getTableData(Editor, t)
      newSortState     == NextSortState(currentSortState, columnIndex)
      dataToApply ==
        IF newSortState # NoSort
        THEN sortTableData(data, columnIndex, newSortState.direction)
        ELSE IF handler.originalTableData[t] # NoData
        THEN handler.originalTableData[t]
        ELSE data
  IN /\ originalTableData' =
          IF handler.originalTableData[t] = NoData
          THEN [originalTableData EXCEPT ![t] = data]
          ELSE originalTableData
     /\ sortClass' = [sortClass EXCEPT ![t] = SortClassesAfter(t, columnIndex, newSortState)]
     /\ \E after \in {Commit(updateTableData(Editor, t, dataToApply))} :
          /\ children' = after.children
          /\ nodeText' = after.text
     /\ sortStates' = [sortStates EXCEPT ![t] = newSortState]
     /\ hist' = CmdHistory("click", t, filterState, TRUE)
     /\ UNCHANGED viewVars
     /\ UNCHANGED stickyVars
     /\ UNCHANGED headerVars
     /\ UNCHANGED <<rows, call, originalTableChildren, handler, edits, filterState>>

\* The filter texts a command carries.
CommandFilterValues == {sLi, sB, sSpace}

\* The columns a sort command names.
CommandSortColumns == {0, 1}

\* The largest number of commands and clicks in a behaviour.
MaxCommands == 3

MayAct == ~CmdHandlerStale /\ hist.steps < MaxCommands

NextCmd ==
  \/ RenderCmd
  \/ /\ MayAct
     /\ \E sel \in Selections : \E columnIndex \in CommandSortColumns :
          \E direction \in Directions : SortCommand(sel, columnIndex, direction)
  \/ /\ MayAct
     /\ \E sel \in Selections : \E columnIndex \in 0..(NumCols(1) - 1) :
          \E filterValue \in CommandFilterValues :
            FilterCommand(sel, columnIndex, filterValue)
  \/ /\ MayAct
     /\ ClearCommand
  \/ /\ MayAct
     /\ \E t \in Tables : \E columnIndex \in 0..(NumCols(t) - 1) :
          HandleClickCmd(t, columnIndex)

SpecCmd == InitCmd /\ [][NextCmd]_vars

(***************************************************************************)
(* $captureOriginalTableChildren and $restoreOriginalTableChildren on a    *)
(* table that is sorted and edited between the calls: the user adds a      *)
(* paragraph, changes a text, inserts a row or removes a row.              *)
(***************************************************************************)
\* The nodes of the committed editor state: the nodes attached to a cell of a
\* row of a table.  A node that was removed with its cell or row is gone.
LiveNodes == UNION {NodesOfCells(children, CellsOf(t)) : t \in Tables}

\* The positions of the table that have an entry in the snapshot.
RestoredPositions(t, originalChildren) ==
  {pos \in DOMAIN originalChildren :
     pos[1] + 1 \in DOMAIN TableRows(t) /\ pos[2] + 1 \in DOMAIN TableRows(t)[pos[1] + 1]}

\* cell.append(child) on a node that is no longer in the editor state fails
\* (the node's latest version cannot be found): the update is abandoned.
RestoreFails(t, originalChildren) ==
  \E pos \in RestoredPositions(t, originalChildren) :
    Range(originalChildren[pos]) \ LiveNodes # {}

\* The table the snapshot functions are exercised on.
SnapshotTable == 1

\* The content of the cells of a table by position: nodes and their texts.
ContentAt(t, pos) ==
  [i \in 1..Len(children[TableRows(t)[pos[1] + 1][pos[2] + 1]]) |->
     <<children[TableRows(t)[pos[1] + 1][pos[2] + 1]][i],
       nodeText[children[TableRows(t)[pos[1] + 1][pos[2] + 1]][i]]>>]

Positions(t) ==
  {<<r - 1, c - 1>> : r \in DOMAIN TableRows(t), c \in 1..NumCols(t)}

NoCapture == [rows |-> <<>>, content |-> <<>>]

SnapshotHistory(kind, failed, changed) ==
  [kind |-> kind, captured |-> hist.captured, failed |-> failed, changed |-> changed]

\* The initial tables of the snapshot runs: rows whose column-0 cell holds a
\* paragraph, an empty paragraph or nothing.
SnapshotShapes ==
  {shape \in InitialShapes : shape[1] \in {<<sB>>, <<>>} /\ shape[2] \in {<<sB>>, <<sEmpty>>}}

InitSnapshot ==
  /\ ViewIdle
  /\ \E shape \in SnapshotShapes :
       /\ children = [cell \in AllCells |->
                        [i \in 1..Len(InitialParagraphs(cell, shape)) |-> cell \o <<i>>]]
       /\ nodeText = [n \in InitialNodes(shape) |->
                        InitialParagraphs(<<n[1], n[2], n[3]>>, shape)[n[4]]]
  /\ rows = [t \in Tables |-> InitialRows(t)]
  /\ originalTableChildren = [t \in Tables |-> NoSnapshot]
  /\ sortStates = <<>>
  /\ handler = <<>>
  /\ sortClass = <<>>
  /\ edits = 0
  /\ filterState = <<>>
  /\ originalTableData = <<>>
  /\ hist = [kind |-> "init", captured |-> NoCapture, failed |-> FALSE, changed |-> FALSE]
  /\ call = NoCall

\* $captureOriginalTableChildren(tableNode), the result kept as the snapshot.
CaptureSnapshot ==
  /\ originalTableChildren[SnapshotTable] = NoSnapshot
  /\ originalTableChildren' =
       [originalTableChildren EXCEPT
          ![SnapshotTable] = captureOriginalTableChildren(Editor, SnapshotTable)]
  /\ hist' = [SnapshotHistory("capture", FALSE, FALSE) EXCEPT
                !.captured = [rows |-> TableRows(SnapshotTable),
                              content |-> [pos \in Positions(SnapshotTable) |->
                                             ContentAt(SnapshotTable, pos)]]]
  /\ UNCHANGED viewVars
  /\ UNCHANGED stickyVars
  /\ UNCHANGED headerVars
  /\ UNCHANGED <<rows, call, children, nodeText, sortStates, handler, sortClass, edits>>
  /\ UNCHANGED cmdVars

\* The rows of the captured table are sorted and written back.
SortWrite(columnIndex, direction) ==
  /\ originalTableChildren[SnapshotTable] # NoSnapshot
  /\ \E after \in
       {updateTableDataWithDirectMovement(
          Editor, SnapshotTable,
          sortTableCellData(getTableCellData(Editor, SnapshotTable), columnIndex,
                            direction))} :
       /\ after.children # children
       /\ children' = after.children
       /\ nodeText' = after.text
  /\ hist' = SnapshotHistory("sort", FALSE, FALSE)
  /\ UNCHANGED viewVars
  /\ UNCHANGED stickyVars
  /\ UNCHANGED headerVars
  /\ UNCHANGED <<rows, call, sortStates, originalTableChildren, handler, sortClass, edits>>
  /\ UNCHANGED cmdVars

\* $restoreOriginalTableChildren(tableNode, originalChildren) in one update.
RestoreSnapshot ==
  /\ originalTableChildren[SnapshotTable] # NoSnapshot
  /\ hist.kind # "restoreAgain"
  /\ \E after \in
       {IF RestoreFails(SnapshotTable, originalTableChildren[SnapshotTable]) THEN Editor
        ELSE restoreOriginalTableChildren(Editor, SnapshotTable,
                                          originalTableChildren[SnapshotTable])} :
       /\ children' = after.children
       /\ nodeText' = after.text
       /\ hist' = SnapshotHistory(
                    IF hist.kind = "restore" THEN "restoreAgain" ELSE "restore",
                    RestoreFails(SnapshotTable, originalTableChildren[SnapshotTable]),
                    IF hist.kind = "restore" THEN hist.changed
                    ELSE after.children # children)
  /\ UNCHANGED viewVars
  /\ UNCHANGED stickyVars
  /\ UNCHANGED headerVars
  /\ UNCHANGED <<rows, call, sortStates, originalTableChildren, handler, sortClass, edits>>
  /\ UNCHANGED cmdVars

\* The user adds a paragraph at the end of the column-0 cell of a row.
SnapshotAddsParagraph(rowIndex) ==
  LET cell == TableRows(SnapshotTable)[rowIndex + 1][1]
      node == <<"new", edits + 1>>
  IN /\ edits < MaxEdits
     /\ originalTableChildren[SnapshotTable] # NoSnapshot
     /\ edits' = edits + 1
     /\ children' = [children EXCEPT ![cell] = @ \o <<node>>]
     /\ nodeText' = (node :> sB) @@ nodeText
     /\ hist' = SnapshotHistory("edit", FALSE, FALSE)
     /\ UNCHANGED viewVars
     /\ UNCHANGED stickyVars
     /\ UNCHANGED headerVars
     /\ UNCHANGED <<rows, call, sortStates, originalTableChildren, handler, sortClass>>
     /\ UNCHANGED cmdVars

\* The user types in the first paragraph of the column-0 cell of a row: the
\* paragraph node stays, its text changes.
UserEditsText(rowIndex) ==
  LET cell == TableRows(SnapshotTable)[rowIndex + 1][1]
  IN /\ edits < MaxEdits
     /\ originalTableChildren[SnapshotTable] # NoSnapshot
     /\ children[cell] # <<>>
     /\ edits' = edits + 1
     /\ nodeText' = [nodeText EXCEPT ![children[cell][1]] = @ \o sY]
     /\ hist' = SnapshotHistory("edit", FALSE, FALSE)
     /\ UNCHANGED viewVars
     /\ UNCHANGED stickyVars
     /\ UNCHANGED headerVars
     /\ UNCHANGED <<rows, call, children, sortStates, originalTableChildren, handler,
                    sortClass>>
     /\ UNCHANGED cmdVars

\* The cells of a row the user inserts: each holds one empty paragraph.
NewRow(t) == [c \in 1..NumCols(t) |-> <<t, 10 + edits, c - 1>>]

\* The user inserts a row that becomes row rowIndex of the table.
UserInsertsRow(rowIndex) ==
  LET t == SnapshotTable
  IN /\ edits < MaxEdits
     /\ originalTableChildren[SnapshotTable] # NoSnapshot
     /\ edits' = edits + 1
     /\ rows' = [rows EXCEPT ![t] = SubSeq(@, 1, rowIndex) \o <<NewRow(t)>>
                                      \o SubSeq(@, rowIndex + 1, Len(@))]
     /\ children' = [cell \in DOMAIN children \cup Range(NewRow(t)) |->
                       IF cell \in Range(NewRow(t)) THEN <<cell \o <<1>>>>
                       ELSE children[cell]]
     /\ nodeText' = [n \in DOMAIN nodeText \cup {cell \o <<1>> : cell \in Range(NewRow(t))} |->
                       IF n \in DOMAIN nodeText THEN nodeText[n] ELSE sEmpty]
     /\ hist' = SnapshotHistory("edit", FALSE, FALSE)
     /\ UNCHANGED viewVars
     /\ UNCHANGED stickyVars
     /\ UNCHANGED headerVars
     /\ UNCHANGED <<call, sortStates, originalTableChildren, handler, sortClass>>
     /\ UNCHANGED cmdVars

\* The user removes row rowIndex of the table: its cells and their nodes
\* leave the editor state.
UserRemovesRow(rowIndex) ==
  LET t == SnapshotTable
      gone == Range(rows[t][rowIndex + 1])
  IN /\ edits < MaxEdits
     /\ originalTableChildren[SnapshotTable] # NoSnapshot
     /\ edits' = edits + 1
     /\ rows' = [rows EXCEPT ![t] = SubSeq(@, 1, rowIndex) \o SubSeq(@, rowIndex + 2, Len(@))]
     /\ children' = [cell \in DOMAIN children |->
                       IF cell \in gone THEN <<>> ELSE children[cell]]
     /\ hist' = SnapshotHistory("edit", FALSE, FALSE)
     /\ UNCHANGED viewVars
     /\ UNCHANGED stickyVars
     /\ UNCHANGED headerVars
     /\ UNCHANGED <<call, nodeText, sortStates, originalTableChildren, handler, sortClass>>
     /\ UNCHANGED cmdVars

NextSnapshot ==
  \/ CaptureSnapshot
  \/ \E columnIndex \in 0..(NumCols(SnapshotTable) - 1) : \E direction \in Directions :
       SortWrite(columnIndex, direction)
  \/ RestoreSnapshot
  \/ \E rowIndex \in EditedRows : SnapshotAddsParagraph(rowIndex)
  \/ \E rowIndex \in EditedRows : UserEditsText(rowIndex)
  \/ \E rowIndex \in 1..Len(rows[SnapshotTable]) : UserInsertsRow(rowIndex)
  \/ \E rowIndex \in 1..(Len(rows[SnapshotTable]) - 1) : UserRemovesRow(rowIndex)

SpecSnapshot == InitSnapshot /\ [][NextSnapshot]_vars

(***************************************************************************)
(* The plugin with one filter per table (src/unnamed/part_006): the sort   *)
(* click and the filter dropdown both end in applyTableView.               *)
(***************************************************************************)
\* activeFilterDropdown = null.
NoDropdown == [tableKey |-> 0, columnIndex |-> -1]

\* newFilterState: the trimmed text under its column, or null (no entry).
newFilterState(columnIndex, filterValue) ==
  IF trim(filterValue) # <<>> THEN (columnIndex :> trim(filterValue)) ELSE NoFilters

\* An update that adds the column to the filters the table has (other than
\* the code's, which replaces them).
mergeFilterStates(prev, tableKey, columnIndex, filterValue) ==
  [prev EXCEPT ![tableKey] = NewFilters(@, columnIndex, filterValue)]

\* setFilterStates((prev) => new Map(prev).set(tableKey, newFilterState)).
setFilterStates(prev, tableKey, columnIndex, filterValue) ==
  [prev EXCEPT ![tableKey] = newFilterState(columnIndex, filterValue)]

\* applyTableView, first steps: the table restored from the snapshot, if there
\* is one, and sorted, if there is a sort state.
RestoredView(ed, t, originalChildren) ==
  IF originalChildren = NoSnapshot THEN ed
  ELSE restoreOriginalTableChildren(ed, t, originalChildren)

SortedView(ed, t, sortState) ==
  IF sortState = NoSort THEN ed
  ELSE updateTableDataWithDirectMovement(
         ed, t, sortTableCellData(getTableCellData(ed, t), sortState.columnIndex,
                                  sortState.direction))

\* applyTableView, last step: the data rows the filter does not keep.
FilteredOut(ed, t, filter) ==
  {rowIndex \in 1..(Len(TableRows(t)) - 1) :
     ~RowPasses(getTableData(ed, t)[rowIndex + 1], filter)}

\* The filter texts typed into the dropdown.
ViewFilterValues == {sA, sSpace}

ViewHistory(kind, t, columnIndex, found) ==
  [kind |-> kind, table |-> t, columnIndex |-> columnIndex, found |-> found,
   value |-> <<>>, viewSnapshot |-> NoSnapshot,
   prevFilter |-> IF t \in Tables THEN filterStates[t] ELSE NoFilters]

\* The initial table of this variant: column 0 holds "b", "" and "a".
ViewShapes == {shape \in SnapshotShapes : shape[1] = <<sB>> /\ shape[2] = <<sEmpty>>}

InitView ==
  /\ StickyIdle
  /\ \E shape \in ViewShapes :
       /\ children = [cell \in AllCells |->
                        [i \in 1..Len(InitialParagraphs(cell, shape)) |-> cell \o <<i>>]]
       /\ nodeText = [n \in InitialNodes(shape) |->
                        InitialParagraphs(<<n[1], n[2], n[3]>>, shape)[n[4]]]
  /\ rows = [t \in Tables |-> InitialRows(t)]
  /\ sortStates = [t \in Tables |-> NoSort]
  /\ filterStates = [t \in Tables |-> NoFilters]
  /\ originalTableChildren = [t \in Tables |-> NoSnapshot]
  /\ activeFilterDropdown = NoDropdown
  /\ hiddenRows = [t \in Tables |-> {}]
  /\ handler = [sortStates |-> [t \in Tables |-> NoSort],
                filterStates |-> [t \in Tables |-> NoFilters],
                originalTableChildren |-> [t \in Tables |-> NoSnapshot]]
  /\ sortClass = [t \in Tables |-> [c \in 0..(NumCols(t) - 1) |-> ""]]
  /\ edits = 0
  /\ filterState = <<>>
  /\ originalTableData = <<>>
  /\ hist = [kind |-> "init", table |-> 0, columnIndex |-> -1, found |-> TRUE,
             value |-> <<>>, viewSnapshot |-> NoSnapshot, prevFilter |-> NoFilters]
  /\ call = NoCall

\* The handlers of the last render closed over a state that has changed.
ViewHandlerStale ==
  handler # [sortStates |-> sortStates, filterStates |-> filterStates,
             originalTableChildren |-> originalTableChildren]

\* The component renders again: the handlers close over the current state.
RenderView ==
  /\ ViewHandlerStale
  /\ handler' = [sortStates |-> sortStates, filterStates |-> filterStates,
                 originalTableChildren |-> originalTableChildren]
  /\ UNCHANGED <<call, rows, children, nodeText, sortStates, originalTableChildren,
                 sortClass, edits, filterState, originalTableData, hist>>
  /\ UNCHANGED viewVars
  /\ UNCHANGED stickyVars
  /\ UNCHANGED headerVars

\* handleFilterClick on the filter area of column columnIndex of table t;
\* found: $getNearestNodeFromDOMNode(tableElement) is a TableNode.
HandleFilterClick(t, columnIndex, found) ==
  /\ activeFilterDropdown' =
       IF found THEN [tableKey |-> t, columnIndex |-> columnIndex]
       ELSE activeFilterDropdown
  /\ hist' = ViewHistory("filterClick", t, columnIndex, found)
  /\ UNCHANGED stickyVars
  /\ UNCHANGED headerVars
  /\ UNCHANGED <<call, rows, children, nodeText, sortStates, originalTableChildren,
                 handler, sortClass, edits, filterState, originalTableData,
                 filterStates, hiddenRows>>

\* onClose of the dropdown.
CloseDropdown ==
  /\ activeFilterDropdown # NoDropdown
  /\ activeFilterDropdown' = NoDropdown
  /\ hist' = ViewHistory("close", activeFilterDropdown.tableKey,
                         activeFilterDropdown.columnIndex, TRUE)
  /\ UNCHANGED stickyVars
  /\ UNCHANGED headerVars
  /\ UNCHANGED <<call, rows, children, nodeText, sortStates, originalTableChildren,
                 handler, sortClass, edits, filterState, originalTableData,
                 filterStates, hiddenRows>>

\* handleFilterChange(filterValue) with the dropdown open.  The headers the
\* filter-active class is updated on are selected by tag name
\* (TABLE_CELL_HEADER_CLASS.slice(1)), which selects no element: no class
\* changes.
HandleFilterChange(filterValue, found) ==
  LET tableKey    == activeFilterDropdown.tableKey
      columnIndex == activeFilterDropdown.columnIndex
  IN /\ activeFilterDropdown # NoDropdown
     /\ filterStates' = setFilterStates(filterStates, tableKey, columnIndex, filterValue)
     /\ IF found
        THEN \E base \in {RestoredView(Editor, tableKey,
                                       handler.originalTableChildren[tableKey])} :
             \E after \in {SortedView(base, tableKey, handler.sortStates[tableKey])} :
               /\ children' = after.children
               /\ nodeText' = after.text
               /\ hiddenRows' =
                    [hiddenRows EXCEPT
                       ![tableKey] = FilteredOut(after, tableKey,
                                                 newFilterState(columnIndex, filterValue))]
        ELSE UNCHANGED <<children, nodeText, hiddenRows>>
     /\ hist' = [ViewHistory("filterChange", tableKey, columnIndex, found) EXCEPT
                   !.value = filterValue,
                   !.viewSnapshot = IF found THEN handler.originalTableChildren[tableKey]
                                    ELSE NoSnapshot]
     /\ UNCHANGED stickyVars
     /\ UNCHANGED headerVars
     /\ UNCHANGED <<call, rows, sortStates, originalTableChildren, handler, sortClass,
                    edits, filterState, originalTableData, activeFilterDropdown>>

\* handleClick on the sort area of column columnIndex of table t.
HandleSortClick(t, columnIndex, found) ==
  /\ activeFilterDropdown' = NoDropdown
  /\ IF found
     THEN /\ originalTableChildren' =
               IF handler.originalTableChildren[t] = NoSnapshot
               THEN [originalTableChildren EXCEPT
                       ![t] = captureOriginalTableChildren(Editor, t)]
               ELSE originalTableChildren
          /\ sortStates' =
               [sortStates EXCEPT ![t] = NextSortState(handler.sortStates[t], columnIndex)]
          /\ \E base \in {RestoredView(Editor, t, handler.originalTableChildren[t])} :
             \E after \in {SortedView(base, t,
                                      NextSortState(handler.sortStates[t], columnIndex))} :
               /\ children' = after.children
               /\ nodeText' = after.text
               /\ hiddenRows' =
                    [hiddenRows EXCEPT
                       ![t] = FilteredOut(after, t, handler.filterStates[t])]
          /\ sortClass' =
               [sortClass EXCEPT
                  ![t] = SortClassesAfter(t, columnIndex,
                                          NextSortState(handler.sortStates[t], columnIndex))]
     ELSE UNCHANGED <<originalTableChildren, sortStates, children, nodeText, hiddenRows,
                      sortClass>>
  /\ hist' = [ViewHistory("click", t, columnIndex, found) EXCEPT
                !.viewSnapshot = IF found THEN handler.originalTableChildren[t]
                                 ELSE NoSnapshot]
  /\ UNCHANGED stickyVars
  /\ UNCHANGED headerVars
  /\ UNCHANGED <<call, rows, handler, edits, filterState, originalTableData, filterStates>>

NextView ==
  \/ RenderView
  \/ /\ ~ViewHandlerStale
     /\ \E t \in Tables : \E columnIndex \in 0..(NumCols(t) - 1) : \E found \in BOOLEAN :
          HandleFilterClick(t, columnIndex, found)
  \/ /\ ~ViewHandlerStale
     /\ CloseDropdown
  \/ /\ ~ViewHandlerStale
     /\ \E filterValue \in ViewFilterValues : \E found \in BOOLEAN :
          HandleFilterChange(filterValue, found)
  \/ /\ ~ViewHandlerStale
     /\ \E t \in Tables : \E columnIndex \in 0..(NumCols(t) - 1) : \E found \in BOOLEAN :
          HandleSortClick(t, columnIndex, found)

SpecView == InitView /\ [][NextView]_vars

(***************************************************************************)
(* $updateTableDataWithFormatting (FilterDropdown.tsx): cell content is    *)
(* serialized, the target cell is cleared and the content is recreated     *)
(* from the serialized form; a block is a top-level child of a cell.       *)
(***************************************************************************)
\* A block whose type cannot be recreated makes $parseSerializedNode throw.
Unsupported == "unsupported"

FormatBlocks ==
  {[type |-> "paragraph", text |-> sA],
   [type |-> "paragraph", text |-> sEmpty],
   [type |-> Unsupported, text |-> sB]}

FormatMaxBlocks == 2
FormatRows == 2

FormatCells == SeqsUpTo(FormatBlocks, FormatMaxBlocks)

\* The tables: one column of cells.
FormatTables == [1..FormatRows -> FormatCells]

\* $getTableCellData: text, source cell and serialized children of each cell.
getFormattedCellData(table) ==
  [r \in 1..Len(table) |->
     <<[textContent |-> JoinBlocks([i \in 1..Len(table[r]) |-> table[r][i].text]),
        cellNode |-> r,
        serializedChildren |-> table[r]]>>]

\* $createCellContentCopy: the exported children of the live cell.
createCellContentCopy(table, cellNode) == table[cellNode]

\* Step 1, one cell: the copies made before any cell is written; <<>> is null.
CopiesOf(table, cellData) ==
  IF Len(cellData.serializedChildren) > 0 THEN cellData.serializedChildren
  ELSE IF Len(table[cellData.cellNode]) > 0
  THEN createCellContentCopy(table, cellData.cellNode)
  ELSE <<>>

\* The paragraph with one text node that holds a cell's plain text.
TextParagraph(textContent) == [type |-> "paragraph", text |-> textContent]

\* The try block: the copies are recreated and appended one by one, from copy
\* k on; the first copy that cannot be recreated ends the loop.
RECURSIVE AppendRecreated(_, _, _)
AppendRecreated(cell, copies, k) ==
  IF k > Len(copies) THEN [children |-> cell, failed |-> FALSE]
  ELSE IF copies[k].type = Unsupported THEN [children |-> cell, failed |-> TRUE]
  ELSE AppendRecreated(Append(cell, copies[k]), copies, k + 1)

\* The catch block: the text paragraph is appended to what the cell holds.
FallbackAfter(cell, textContent) ==
  IF trim(textContent) # <<>> THEN Append(cell, TextParagraph(textContent)) ELSE cell

\* A catch block that clears the cell before it writes the text paragraph
\* (other than the code's).
FallbackCleared(cell, textContent) ==
  IF trim(textContent) # <<>> THEN <<TextParagraph(textContent)>> ELSE <<>>

\* Step 2, one target cell: cleared, then written.
WriteFormattedCell(cellCopies, cellData) ==
  IF Len(cellCopies) > 0
  THEN IF AppendRecreated(<<>>, cellCopies, 1).failed
       THEN FallbackAfter(AppendRecreated(<<>>, cellCopies, 1).children,
                          cellData.textContent)
       ELSE AppendRecreated(<<>>, cellCopies, 1).children
  ELSE IF trim(cellData.textContent) # <<>>
  THEN <<TextParagraph(cellData.textContent)>>
  ELSE <<>>

updateTableDataWithFormatting(table, data) ==
  [r \in 1..Len(table) |->
     IF r <= Len(data) /\ Len(data[r]) >= 1
     THEN WriteFormattedCell(CopiesOf(table, data[r][1]), data[r][1])
     ELSE table[r]]

\* The orders in which the rows are written back.
FormatOrders == {"same", "reversed"}

InitFormat ==
  /\ PluginIdle
  /\ call \in {[fn |-> "table", table |-> table, data |-> <<>>, result |-> <<>>] :
                 table \in FormatTables}

CallUpdateTableDataWithFormatting(order) ==
  /\ call.fn = "table"
  /\ \E data \in {IF order = "same" THEN getFormattedCellData(call.table)
                  ELSE Reverse(getFormattedCellData(call.table))} :
       call' = [fn |-> "updateTableDataWithFormatting", table |-> call.table,
                data |-> data,
                result |-> updateTableDataWithFormatting(call.table, data)]
  /\ UNCHANGED pluginVars

NextFormat == \E order \in FormatOrders : CallUpdateTableDataWithFormatting(order)

SpecFormat == InitFormat /\ [][NextFormat]_vars

(***************************************************************************)
(* $updateTableDataWithDirectMovement that finds the source cell by its    *)
(* text (src/unnamed/part_003, FilterDropdown.tsx): data holds the texts   *)
(* requested for the positions.                                            *)
(***************************************************************************)
\* The first cell of currentTableData, row by row, whose text is textContent;
\* <<>> when there is none (sourceCell stays null).
FirstCellWithText(currentTableData, textContent) ==
  LET width == Len(currentTableData[1])
      hits  == {k \in 0..(Len(currentTableData) * width - 1) :
                  currentTableData[(k \div width) + 1][(k % width) + 1].textContent
                    = textContent}
  IN IF hits = {} THEN <<>>
     ELSE LET k == CHOOSE h \in hits : \A other \in hits : h <= other
          IN currentTableData[(k \div width) + 1][(k % width) + 1].cellKey

\* Step 1 for one position: the test and the search are on the text.
ContentToMoveByText(ed, t, data, rowIndex, cellIndex) ==
  LET targetCell == TableRows(t)[rowIndex + 1][cellIndex + 1]
      cellData   == data[rowIndex + 1][cellIndex + 1]
      sourceCell == FirstCellWithText(getTableCellData(ed, t), cellData.textContent)
  IN IF cellData.textContent # getTextContent(ed, targetCell)
     THEN IF sourceCell # <<>>
          THEN [targetCell |-> targetCell, kind |-> "nodes",
                nodes |-> ed.children[sourceCell], text |-> <<>>]
          ELSE IF trim(cellData.textContent) # <<>>
          THEN [targetCell |-> targetCell, kind |-> "text",
                nodes |-> <<>>, text |-> cellData.textContent]
          ELSE [targetCell |-> targetCell, kind |-> "nodes", nodes |-> <<>>, text |-> <<>>]
     ELSE [targetCell |-> targetCell, kind |-> "nodes", nodes |-> <<>>, text |-> <<>>]

RECURSIVE CollectFromByText(_, _, _, _, _)
CollectFromByText(ed, t, data, width, k) ==
  IF k >= Len(data) * width THEN <<>>
  ELSE LET rowIndex  == k \div width
           cellIndex == k % width
       IN IF /\ rowIndex < Len(TableRows(t))
             /\ cellIndex < Len(data[rowIndex + 1])
             /\ cellIndex < Len(TableRows(t)[rowIndex + 1])
          THEN <<ContentToMoveByText(ed, t, data, rowIndex, cellIndex)>>
               \o CollectFromByText(ed, t, data, width, k + 1)
          ELSE CollectFromByText(ed, t, data, width, k + 1)

updateTableDataWithDirectMovementByText(ed, t, data) ==
  ApplyAll(ed, CollectFromByText(ed, t, data, NumCols(t), 0))

\* The orders of the data rows of table t: order[i] is the data row whose
\* content is requested at data row i.
RowOrders(t) ==
  {order \in [1..(Len(TableRows(t)) - 1) -> 1..(Len(TableRows(t)) - 1)] :
     \A i \in DOMAIN order : \A j \in DOMAIN order : order[i] = order[j] => i = j}

\* The cell data of the table with the data rows in the given order, the
\* header row first.
PermutedData(ed, t, order) ==
  LET data == getTableCellData(ed, t)
  IN [r \in DOMAIN data |-> IF r = 1 THEN data[1] ELSE data[order[r - 1] + 1]]

\* One call of the function on table t, in one editor update.
CallUpdateByText(t, order) ==
  /\ \E data \in {PermutedData(Editor, t, order)} :
       /\ \E after \in {updateTableDataWithDirectMovementByText(Editor, t, data)} :
            /\ children' = after.children
            /\ nodeText' = after.text
       /\ hist' = [kind |-> "textWrite", table |-> t,
                   requested |-> [r \in DOMAIN data |->
                                    [c \in DOMAIN data[r] |-> data[r][c].textContent]]]
  /\ UNCHANGED viewVars
  /\ UNCHANGED stickyVars
  /\ UNCHANGED headerVars
  /\ UNCHANGED <<rows, call, sortStates, originalTableChildren, handler, sortClass, edits>>
  /\ UNCHANGED cmdVars

NextText == \E t \in Tables : \E order \in RowOrders(t) : CallUpdateByText(t, order)

SpecText == InitPlugin /\ [][NextText]_vars

(***************************************************************************)
(* TableStickyScrollerPlugin (TableHeaderStickyPlugin/utils.ts): the       *)
(* effect registers scroll and resize listeners and its cleanup removes    *)
(* them.  A listener is known by its target, its type and its callback; a  *)
(* callback is the number of the call of throttle() that returned it.      *)
(***************************************************************************)
Listener(target, type, callback) == [target |-> target, type |-> type, callback |-> callback]

\* EventTarget.addEventListener: a listener that is registered already is not
\* registered twice.
addEventListener(ls, target, type, callback) == ls \cup {Listener(target, type, callback)}

\* EventTarget.removeEventListener: removes the listener with this target,
\* type and callback, if there is one.
removeEventListener(ls, target, type, callback) == ls \ {Listener(target, type, callback)}

\* The largest number of functions throttle() returns in a run.
MaxThrottled == 32

\* handleVerticalScroll(), handleResize() and handleHorizontalScroll() return
\* throttle(...): the function that call number n of throttle returns.
ThrottledFunction(n) == n

StickyHistory(kind, registered) == [kind |-> kind, registered |-> registered]

InitSticky ==
  /\ HeaderIdle
  /\ listeners = {}
  /\ throttled = 0
  /\ mounted = FALSE
  /\ editorScroller \in BOOLEAN
  /\ call = NoCall
  /\ rows = <<>>
  /\ children = <<>>
  /\ nodeText = <<>>
  /\ sortStates = <<>>
  /\ originalTableChildren = <<>>
  /\ handler = <<>>
  /\ sortClass = <<>>
  /\ edits = 0
  /\ filterState = <<>>
  /\ originalTableData = <<>>
  /\ filterStates = <<>>
  /\ activeFilterDropdown = <<>>
  /\ hiddenRows = <<>>
  /\ hist = StickyHistory("init", {})

\* The listeners the effect adds: setupTableScroller for a table that needs
\* horizontal scrolling, then window scroll, window resize and, when the
\* element exists, the scroll of the editor scroller.
EffectListeners(needsScroll) ==
  LET first == throttled + (IF needsScroll THEN 1 ELSE 0)
  IN (IF needsScroll
      THEN {Listener("stickyScroller", "scroll", ThrottledFunction(throttled + 1))}
      ELSE {})
     \cup {Listener("window", "scroll", ThrottledFunction(first + 1)),
           Listener("window", "resize", ThrottledFunction(first + 2))}
     \cup (IF editorScroller
           THEN {Listener("editorScroller", "scroll", ThrottledFunction(first + 3))}
           ELSE {})

\* The effect runs (mount).  Without a root element it returns at once, with
\* no cleanup.
MountSticky(root, needsScroll) ==
  /\ ~mounted
  /\ throttled + 7 <= MaxThrottled
  /\ IF root
     THEN /\ listeners' = listeners \cup EffectListeners(needsScroll)
          /\ throttled' = throttled + Cardinality(EffectListeners(needsScroll))
          /\ mounted' = TRUE
          /\ hist' = StickyHistory("mount",
                       {l \in EffectListeners(needsScroll) : l.target # "stickyScroller"})
     ELSE /\ UNCHANGED <<listeners, throttled, mounted>>
          /\ hist' = StickyHistory("noRoot", {})
  /\ UNCHANGED <<call, rows, children, nodeText, sortStates, originalTableChildren, handler,
                 sortClass, edits, editorScroller>>
  /\ UNCHANGED cmdVars
  /\ UNCHANGED viewVars
  /\ UNCHANGED headerVars

\* The cleanup of the effect (unmount): the sticky scrollers leave the
\* document with their listeners, then removeEventListener is called with the
\* results of new calls of handleVerticalScroll(), handleResize() and
\* handleHorizontalScroll().
UnmountSticky ==
  /\ mounted
  /\ \E kept \in {{l \in listeners : l.target # "stickyScroller"}} :
       listeners' =
         IF editorScroller
         THEN removeEventListener(
                removeEventListener(
                  removeEventListener(kept, "window", "scroll", ThrottledFunction(throttled + 1)),
                  "window", "resize", ThrottledFunction(throttled + 2)),
                "editorScroller", "scroll", ThrottledFunction(throttled + 3))
         ELSE removeEventListener(
                removeEventListener(kept, "window", "scroll", ThrottledFunction(throttled + 1)),
                "window", "resize", ThrottledFunction(throttled + 2))
  /\ throttled' = throttled + (IF editorScroller THEN 3 ELSE 2)
  /\ mounted' = FALSE
  /\ hist' = StickyHistory("unmount", hist.registered)
  /\ UNCHANGED <<call, rows, children, nodeText, sortStates, originalTableChildren, handler,
                 sortClass, edits, editorScroller>>
  /\ UNCHANGED cmdVars
  /\ UNCHANGED viewVars
  /\ UNCHANGED headerVars

NextSticky ==
  \/ \E root \in BOOLEAN : \E needsScroll \in BOOLEAN : MountSticky(root, needsScroll)
  \/ UnmountSticky

SpecSticky == InitSticky /\ [][NextSticky]_vars

(***************************************************************************)
(* TableHeaderStickyPlugin (TableHeaderStickyPlugin/index.tsx, utils.ts):  *)
(* a sticky header container per sortable table, a MutationObserver on the *)
(* editor, two setTimeout callbacks and the cleanup of the effect.  The    *)
(* id generateTableId gives a table is modelled by the table element: an   *)
(* element keeps the attribute it gets and is set up once.                 *)
(***************************************************************************)
\* The table elements the editor can hold; the headers of the last one are not
\* sortable (tableHasSortableHeaders is false).
HeaderTables == {1, 2, 3}

SortableTables == {1, 2}

\* The largest number of mounts of the plugin.
MaxMounts == 2

\* findAllTables(editorElement)
findAllTables(elements) == {e \in HeaderTables : elements[e].state = "present"}

Timer(kind, cleanup, inst) == [kind |-> kind, cleanup |-> cleanup, instance |-> inst]

\* The part of the state initializeStickyHeaders and cleanupOrphanedHeaders
\* work on.
HeaderState == [tableElements |-> tableElements, containers |-> containers,
                stickyHeaders |-> stickyHeaders]

\* initializeStickyHeaders run by plugin instance inst: setupTableObserver for
\* every table without the attribute; a sortable table gets the attribute and
\* a container in document.body, and setStickyHeaders adds the entry (no
\* effect when the instance is unmounted: live is false).
initializeStickyHeaders(st, inst, live) ==
  LET new == {e \in findAllTables(st.tableElements) :
                ~st.tableElements[e].attr /\ e \in SortableTables}
  IN [tableElements |-> [e \in HeaderTables |->
                           IF e \in new THEN [st.tableElements[e] EXCEPT !.attr = TRUE]
                           ELSE st.tableElements[e]],
      containers    |-> st.containers \cup {[id |-> e, instance |-> inst] : e \in new},
      stickyHeaders |-> IF live THEN st.stickyHeaders \cup new ELSE st.stickyHeaders]

\* cleanupOrphanedHeaders: the entries of stickyHeadersRef.current whose id is
\* the attribute of no table of the editor lose their container and their
\* entry.
cleanupOrphanedHeaders(st, ref) ==
  LET orphanedIds == {id \in ref : ~(id \in findAllTables(st.tableElements)
                                      /\ st.tableElements[id].attr)}
  IN [tableElements |-> st.tableElements,
      containers    |-> {c \in st.containers : c.id \notin orphanedIds},
      stickyHeaders |-> st.stickyHeaders \ orphanedIds]

\* The listeners the effect of instance inst adds and its cleanup removes:
\* handleScroll, handleResize and handleHorizontalScroll are the same
\* functions in both.
HeaderListeners(inst) ==
  {Listener("window", "scroll", inst), Listener("window", "resize", inst)}
  \cup (IF editorScroller THEN {Listener("editorScroller", "scroll", inst)} ELSE {})

HeaderFrame ==
  /\ UNCHANGED <<call, rows, children, nodeText, sortStates, originalTableChildren, handler,
                 sortClass, edits, editorScroller, throttled, hist>>
  /\ UNCHANGED cmdVars
  /\ UNCHANGED viewVars

InitHeader ==
  /\ tableElements \in [HeaderTables -> {[state |-> "present", attr |-> FALSE],
                                         [state |-> "absent", attr |-> FALSE]}]
  /\ tableElements[3].state = "absent"
  /\ containers = {}
  /\ stickyHeaders = {}
  /\ stickyHeadersRef = {}
  /\ timers = {}
  /\ instance = 0
  /\ listeners = {}
  /\ throttled = 0
  /\ mounted = FALSE
  /\ editorScroller = TRUE
  /\ call = NoCall
  /\ rows = <<>>
  /\ children = <<>>
  /\ nodeText = <<>>
  /\ sortStates = <<>>
  /\ originalTableChildren = <<>>
  /\ handler = <<>>
  /\ sortClass = <<>>
  /\ edits = 0
  /\ filterState = <<>>
  /\ originalTableData = <<>>
  /\ filterStates = <<>>
  /\ activeFilterDropdown = <<>>
  /\ hiddenRows = <<>>
  /\ hist = <<>>

\* The plugin is mounted: a new state and a new ref, and the effect runs.
MountHeader ==
  /\ ~mounted
  /\ instance < MaxMounts
  /\ instance' = instance + 1
  /\ mounted' = TRUE
  /\ \E after \in {initializeStickyHeaders(
                     [HeaderState EXCEPT !.stickyHeaders = {}], instance + 1, TRUE)} :
       /\ tableElements' = after.tableElements
       /\ containers' = after.containers
       /\ stickyHeaders' = after.stickyHeaders
  /\ stickyHeadersRef' = {}
  /\ listeners' = listeners \cup HeaderListeners(instance + 1)
  /\ UNCHANGED timers
  /\ HeaderFrame

\* The render after setStickyHeaders and its effect:
\* stickyHeadersRef.current = stickyHeaders.
RenderHeader ==
  /\ mounted
  /\ stickyHeadersRef # stickyHeaders
  /\ stickyHeadersRef' = stickyHeaders
  /\ UNCHANGED <<tableElements, containers, stickyHeaders, timers, instance, listeners,
                 mounted>>
  /\ HeaderFrame

\* One commit of the editor adds and removes table elements; the callback of
\* the MutationObserver runs in the microtask after it.
EditorCommit(added, removed) ==
  /\ added \cup removed # {}
  /\ \A e \in added : tableElements[e].state = "absent"
  /\ \A e \in removed : tableElements[e].state = "present"
  /\ \E elements \in {[e \in HeaderTables |->
                         IF e \in added THEN [tableElements[e] EXCEPT !.state = "present"]
                         ELSE IF e \in removed
                         THEN [tableElements[e] EXCEPT !.state = "removed"]
                         ELSE tableElements[e]]} :
       IF mounted /\ added # {}
       THEN /\ tableElements' = elements
            /\ timers' = timers \cup {Timer("reinit", removed # {}, instance)}
            /\ UNCHANGED <<containers, stickyHeaders>>
       ELSE IF mounted /\ removed # {}
       THEN \E after \in {cleanupOrphanedHeaders(
                            [HeaderState EXCEPT !.tableElements = elements],
                            stickyHeadersRef)} :
              /\ tableElements' = after.tableElements
              /\ containers' = after.containers
              /\ stickyHeaders' = after.stickyHeaders
              /\ UNCHANGED timers
       ELSE /\ tableElements' = elements
            /\ UNCHANGED <<containers, stickyHeaders, timers>>
  /\ UNCHANGED <<stickyHeadersRef, instance, listeners, mounted>>
  /\ HeaderFrame

\* A click on a header cell of a sticky header: the scroll listener is
\* removed and the timer that adds it again is set.
ClickStickyHeader(container) ==
  /\ container \in containers
  /\ listeners' = removeEventListener(listeners, "window", "scroll", container.instance)
  /\ timers' = timers \cup {Timer("readd", FALSE, container.instance)}
  /\ UNCHANGED <<tableElements, containers, stickyHeaders, stickyHeadersRef, instance,
                 mounted>>
  /\ HeaderFrame

\* A timer fires.  "readd": handleScrollRef.current is registered on window.
\* "reinit": cleanupOrphanedHeaders if a table was removed in the batch, then
\* initializeStickyHeaders.  The ref of an instance that was unmounted holds
\* only headers whose container the cleanup has removed.
TimerFires(timer) ==
  /\ timer \in timers
  /\ timers' = timers \ {timer}
  /\ IF timer.kind = "readd"
     THEN /\ listeners' = addEventListener(listeners, "window", "scroll", timer.instance)
          /\ UNCHANGED <<tableElements, containers, stickyHeaders>>
     ELSE /\ \E live \in {mounted /\ timer.instance = instance} :
               \E cleaned \in {IF timer.cleanup /\ live
                               THEN cleanupOrphanedHeaders(HeaderState, stickyHeadersRef)
                               ELSE HeaderState} :
                 \E after \in {initializeStickyHeaders(cleaned, timer.instance, live)} :
                   /\ tableElements' = after.tableElements
                   /\ containers' = after.containers
                   /\ stickyHeaders' = after.stickyHeaders
          /\ UNCHANGED listeners
  /\ UNCHANGED <<stickyHeadersRef, instance, mounted>>
  /\ HeaderFrame

\* The cleanup of the effect (unmount): cleanup() removes the containers of
\* stickyHeadersRef.current, the listeners are removed and the observer is
\* disconnected.  The timers are not cleared.
UnmountHeader ==
  /\ mounted
  /\ mounted' = FALSE
  /\ containers' = {c \in containers : c.id \notin stickyHeadersRef}
  /\ stickyHeaders' = {}
  /\ stickyHeadersRef' = {}
  /\ listeners' = listeners \ HeaderListeners(instance)
  /\ UNCHANGED <<tableElements, timers, instance>>
  /\ HeaderFrame

NextHeader ==
  \/ MountHeader
  \/ RenderHeader
  \/ \E e \in HeaderTables : EditorCommit({e}, {})
  \/ \E e \in HeaderTables : EditorCommit({}, {e})
  \/ \E a \in HeaderTables : \E r \in HeaderTables : EditorCommit({a}, {r})
  \/ \E container \in containers : ClickStickyHeader(container)
  \/ \E timer \in timers : TimerFires(timer)
  \/ UnmountHeader

SpecHeader == InitHeader /\ [][NextHeader]_vars

\* The timers setTimeout can hold.
HeaderTimers ==
  {Timer(kind, cleanup, inst) :
     kind \in {"readd", "reinit"}, cleanup \in BOOLEAN, inst \in 1..(MaxMounts + 1)}

\* React renders after a state update and the browser runs every timer that
\* is due; the commits of the editor, the clicks and the unmount need not
\* happen.
SpecHeaderLive ==
  /\ InitHeader
  /\ [][NextHeader]_vars
  /\ WF_vars(RenderHeader)
  /\ \A timer \in HeaderTimers : WF_vars(TimerFires(timer))

(***************************************************************************)
(* Properties of the pure functions, checked under SpecPure                *)
(***************************************************************************)
IsSortCall == call.fn \in {"sortTableData", "sortTableCellData"}

\* The input as the called function received it.
CallInput == IF call.fn = "sortTableCellData" THEN CellDataOf(call.data) ELSE call.data

\* The text a sort reads from a row of its input or of its result.
SortValue(row) ==
  IF call.fn = "sortTableCellData" THEN TextContentAt(row, call.columnIndex)
  ELSE StringAt(row, call.columnIndex)

ResultRows == DataRowsOf(call.result)

\* C3: for every table with a header row, every sort directive and every
\* filter directive, row 0 of the result of sortTableData, sortTableCellData
\* and filterTableData is row 0 of the input, and the rows after it are rows
\* of the input's data rows: the header is not compared, moved or removed.
C3_HeaderRowKept ==
  call.fn # "input" =>
    /\ Len(call.result) >= 1
    /\ call.result[1] = CallInput[1]
    /\ Len(call.result) <= Len(CallInput)
    /\ \A i \in 2..Len(call.result) :
         \E j \in 2..Len(CallInput) : call.result[i] = CallInput[j]

\* C3 witness: a descending sort that moved data rows under a header whose
\* text sorts between them, and a filter that removed rows.
C3_Witness ==
  /\ call.fn = "sortTableData"
  /\ call.direction = "desc"
  /\ call.columnIndex = 0
  /\ call.data = <<<<sName, sTag>>, <<sA, sX>>, <<sB, sX>>, <<sEmpty, sY>>>>
  /\ call.result = <<<<sName, sTag>>, <<sB, sX>>, <<sA, sX>>, <<sEmpty, sY>>>>

\* C7 (as claimed): in the result of a sort, in both directions, every data
\* row whose sort-column text is empty after trimming comes after every data
\* row whose sort-column text is not empty.
C7_EmptyAlwaysLast ==
  IsSortCall =>
    \A i, j \in 1..Len(ResultRows) :
      (/\ trim(SortValue(ResultRows[i])) = <<>>
       /\ trim(SortValue(ResultRows[j])) # <<>>) => j < i

\* Two values the comparator finds equal.
ComparesEqual(aVal, bVal) == Comparator(aVal, bVal, call.direction) = 0

\* C8: a sort is stable in both directions: for every value, the data rows of
\* the result whose sort-column value compares equal to it are the data rows
\* of the input with that property, in the order of the input.
C8_SortStable ==
  IsSortCall =>
    \A r \in 1..Len(ResultRows) :
      LET v == SortValue(ResultRows[r])
          Same(row) == ComparesEqual(SortValue(row), v)
      IN SelectSeq(ResultRows, Same) = SelectSeq(DataRowsOf(CallInput), Same)

\* C8 witness: a descending sort of three rows, two of which have the same
\* value in the sort column and differ in the other column.
C8_Witness ==
  /\ call.fn = "sortTableCellData"
  /\ call.direction = "desc"
  /\ call.columnIndex = 0
  /\ call.data = <<<<sName, sTag>>, <<sA, sX>>, <<sB, sX>>, <<sA, sY>>>>
  /\ [i \in 1..3 |-> ResultRows[i][1].cellKey] = <<<<3, 1>>, <<2, 1>>, <<4, 1>>>>

\* The digits that end a text, and the text before them.
RECURSIVE TrailingDigitsStart(_, _)
TrailingDigitsStart(str, i) ==
  IF i >= 1 /\ str[i] \in Range(Digits) THEN TrailingDigitsStart(str, i - 1) ELSE i + 1

PrefixOf(str) == SubSeq(str, 1, TrailingDigitsStart(str, Len(str)) - 1)

RunOf(str) == SubSeq(str, TrailingDigitsStart(str, Len(str)), Len(str))

RECURSIVE NumericValue(_)
NumericValue(run) ==
  IF run = <<>> THEN 0
  ELSE 10 * NumericValue(SubSeq(run, 1, Len(run) - 1)) + (CharCode(run[Len(run)]) - 48)

IsAscendingOnColumn0 ==
  /\ call.fn = "sortTableData"
  /\ call.direction = "asc"
  /\ call.columnIndex = 0

\* The column-0 values of the result's data rows.
ResultValues == [i \in 1..Len(ResultRows) |-> StringAt(ResultRows[i], 0)]

ContainsIgnoringCase(text, sub) ==
  \E k \in 0..Len(text) :
    /\ k + Len(sub) <= Len(text)
    /\ \A i \in 1..Len(sub) : LowerChar(text[k + i]) = LowerChar(sub[i])

\* The text of the cell of a row at a column, empty when the row has no such
\* cell.
CellTextOrEmpty(row, columnIndex) ==
  IF columnIndex + 1 <= Len(row) THEN row[columnIndex + 1] ELSE <<>>

\* C10: filterTableData keeps a data row if and only if, for the column of
\* (each of) the filter's entries, the text of the row's cell at that column
\* contains the filter text compared case-insensitively, a missing cell being
\* empty text; the kept rows stay in order under the header; with no filter
\* entry the result is the input.
C10_FilterKeepsMatches ==
  call.fn = "filterTableData" =>
    IF DOMAIN call.filters = {} THEN call.result = call.data
    ELSE LET Matches(row) ==
               \A columnIndex \in DOMAIN call.filters :
                 ContainsIgnoringCase(CellTextOrEmpty(row, columnIndex),
                                      call.filters[columnIndex])
         IN call.result = <<call.data[1]>> \o SelectSeq(DataRowsOf(call.data), Matches)

\* C10 witness: Alice, Bob, Charlie filtered on column 0 by "li" leaves Alice
\* and Charlie.
C10_Witness ==
  /\ call.fn = "filterTableData"
  /\ DOMAIN call.filters = {0}
  /\ call.filters[0] = sLi
  /\ call.data = <<<<sName, sTag>>, <<sAlice, sLI>>, <<sBob>>, <<sCharlie, sEmpty>>>>
  /\ call.result = <<<<sName, sTag>>, <<sAlice, sLI>>, <<sCharlie, sEmpty>>>>


(***************************************************************************)
(* Properties of the sort clicks, checked under Spec.                      *)
(***************************************************************************)
\* The state the cycle prescribes after a click on column columnIndex when
\* the state was prev.
CycleSuccessor(prev, columnIndex) ==
  CASE prev = NoSort -> SortState(columnIndex, "asc")
    [] prev # NoSort /\ prev.columnIndex # columnIndex -> SortState(columnIndex, "asc")
    [] prev # NoSort /\ prev.columnIndex = columnIndex /\ prev.direction = "asc" ->
         SortState(columnIndex, "desc")
    [] OTHER -> NoSort

SortedHeaders(t) == {c \in 0..(NumCols(t) - 1) : sortClass[t][c] # ""}

\* C1: after a sort click on a column of a table, the table's sort state is
\* the successor in none -> ascending -> descending -> none of the state
\* before the click when the column is the same, and (column, ascending) when
\* the column is another one; at most one header of a table carries a sort
\* indicator, and it is the one of the table's sort state.
C1_SortCycle ==
  /\ hist.kind = "click" =>
       sortStates[hist.table] = CycleSuccessor(hist.prevSort, hist.columnIndex)
  /\ \A t \in Tables :
       /\ Cardinality(SortedHeaders(t)) <= 1
       /\ SortedHeaders(t) = IF sortStates[t] = NoSort THEN {}
                             ELSE {sortStates[t].columnIndex}
       /\ \A c \in SortedHeaders(t) :
            sortClass[t][c] = IF sortStates[t].direction = "asc" THEN "sort-asc"
                              ELSE "sort-desc"

\* C1 witness: three clicks in a row on one column have taken a table through
\* ascending and descending back to no sort.
C1_Witness ==
  /\ hist.kind = "click"
  /\ hist.count = 3
  /\ hist.prevSort = SortState(hist.columnIndex, "desc")
  /\ sortStates[hist.table] = NoSort

\* C2: when three clicks in a row on one column, with no edit in between,
\* have taken a table from no sort back to no sort, every cell of the table
\* holds the nodes, and the texts, it held before the first of the clicks.
C2_ThreeClicksRestore ==
  (hist.kind = "click" /\ hist.count = 3) =>
    TableContent(Editor, hist.table) = hist.before

\* The rows of the snapshot as cell data: the text of a cell's nodes, and the
\* position of the cell in the snapshot.
OriginalCellData(t) ==
  [r \in DOMAIN TableRows(t) |->
     [c \in 1..NumCols(t) |->
        [textContent |->
           JoinBlocks([i \in 1..Len(originalTableChildren[t][<<r - 1, c - 1>>]) |->
                         nodeText[originalTableChildren[t][<<r - 1, c - 1>>][i]]]),
         cellKey |-> <<r - 1, c - 1>>]]]

\* The sort directive of the table applied to the rows of the snapshot.
ViewOfOriginal(t) ==
  LET sorted == IF sortStates[t] = NoSort THEN OriginalCellData(t)
                ELSE sortTableCellData(OriginalCellData(t), sortStates[t].columnIndex,
                                       sortStates[t].direction)
  IN [r \in DOMAIN TableRows(t) |->
        [c \in 1..NumCols(t) |-> originalTableChildren[t][sorted[r][c].cellKey]]]

Displayed(t) ==
  [r \in DOMAIN TableRows(t) |-> [c \in 1..NumCols(t) |-> children[TableRows(t)[r][c]]]]

\* C4: for a table that has a snapshot and was not edited since, the data
\* rows on display are the rows of the snapshot sorted by the table's sort
\* directive (rows that tie are in the order of the snapshot).
C4_ViewFromOriginal ==
  \A t \in Tables :
    (originalTableChildren[t] # NoSnapshot /\ t \notin hist.dirty) =>
      \A r \in 2..Len(TableRows(t)) : Displayed(t)[r] = ViewOfOriginal(t)[r]


(***************************************************************************)
(* Properties of the filter commands, checked under SpecCmd.               *)
(***************************************************************************)
\* The row passes every entry of the filters (text contained, case ignored).
MatchesFilters(row, filters) ==
  \A columnIndex \in DOMAIN filters :
    ContainsIgnoringCase(CellTextOrEmpty(row, columnIndex), filters[columnIndex])

BlankRow(row) == \A c \in DOMAIN row : row[c] = <<>>

\* C5: after FILTER_TABLE_COLUMN_COMMAND has applied filters to a table, the
\* data rows of the table are the rows it had before that match the filters,
\* in their order, and every row below them is blank.
C5_FilterShowsMatches ==
  (hist.kind = "filter" /\ hist.table \in Tables /\ hist.filters # NoFilters) =>
    LET Matches(row) == MatchesFilters(row, hist.filters)
        expected == SelectSeq(DataRowsOf(hist.before), Matches)
        shown    == DataRowsOf(getTableData(Editor, hist.table))
    IN \A i \in 1..Len(shown) :
         IF i <= Len(expected) THEN shown[i] = expected[i] ELSE BlankRow(shown[i])

\* C6: when the filter state has become empty again, by a blank filter value
\* or by CLEAR_TABLE_FILTERS_COMMAND, and no sort was made while a filter was
\* set, every table has the rows it had before the first filter was set.
C6_ClearRestoresRows ==
  (/\ hist.kind \in {"filter", "clear"}
   /\ hist.wasFiltered
   /\ filterState = NoFilters
   /\ ~hist.sortedSince) =>
    \A t \in Tables : getTableData(Editor, t) = hist.unfiltered[t]


(***************************************************************************)
(* Properties of the write-back and of the snapshot, checked under Spec.   *)
(***************************************************************************)
NodesOfTable(ch, t) == UNION {Range(ch[cell]) : cell \in CellsOf(t)}

\* Every node of the table is at one place of one cell.
EachNodeOnce(ch, t) ==
  \A c1 \in CellsOf(t) : \A c2 \in CellsOf(t) :
    \A i \in 1..Len(ch[c1]) : \A j \in 1..Len(ch[c2]) :
      ch[c1][i] = ch[c2][j] => (c1 = c2 /\ i = j)

\* A step in which a click sorts table t: the table's sort state changes to
\* a column and a direction.
SortStepOn(t) == sortStates'[t] # sortStates[t] /\ sortStates'[t] # NoSort

\* The rows the click asks $updateTableDataWithDirectMovement to write.
RequestedRows(t) ==
  sortTableCellData(getTableCellData(Editor, t), sortStates'[t].columnIndex,
                    sortStates'[t].direction)

\* C11: when a click has $updateTableDataWithDirectMovement write the sorted
\* rows (a permutation of the table's rows), every cell of the table then
\* holds the sequence of nodes that the cell named by the requested cellKey
\* held before, and the nodes of the table are the same as before, each at
\* one place of one cell.
C11_DirectMovementMovesContent ==
  [][\A t \in Tables :
       SortStepOn(t) =>
         /\ \A r \in DOMAIN TableRows(t) : \A c \in 1..NumCols(t) :
              children'[TableRows(t)[r][c]] = children[RequestedRows(t)[r][c].cellKey]
         /\ NodesOfTable(children', t) = NodesOfTable(children, t)
         /\ EachNodeOnce(children', t)]_vars

\* C11 witness: the first click on a column of table 1 has moved the cell
\* with two paragraphs, and a cell without children, to other rows.
C11_Witness ==
  /\ hist.kind = "click"
  /\ hist.table = 1
  /\ hist.count = 1
  /\ children[<<1, 2, 1>>] # <<<<1, 2, 1, 1>>, <<1, 2, 1, 2>>>>
  /\ \E r \in {1, 3} : children[<<1, r, 1>>] = <<<<1, 2, 1, 1>>, <<1, 2, 1, 2>>>>
  /\ \E r \in 1..3 : \E q \in 1..3 :
       r # q /\ hist.before[r + 1][1] = <<>> /\ children[<<1, q, 0>>] = <<>>
            /\ children[<<1, r, 0>>] # <<>>

(***************************************************************************)
(* Properties of capture and restore, checked under SpecSnapshot.          *)
(***************************************************************************)
Restored == hist.kind \in {"restore", "restoreAgain"}

\* C12: the snapshot is an independent copy: whatever the user changed in the
\* live cells after the capture, a restore writes into each cell the content
\* that was captured, nodes and texts as they were at the capture.
C12_RestoreWritesCapturedCopy ==
  (Restored /\ ~hist.failed) =>
    \A pos \in RestoredPositions(SnapshotTable, originalTableChildren[SnapshotTable]) :
      ContentAt(SnapshotTable, pos) = hist.captured.content[pos]

\* The position a cell had in the captured table.
CapturedPosition(cell) ==
  CHOOSE pos \in DOMAIN hist.captured.content :
    hist.captured.rows[pos[1] + 1][pos[2] + 1] = cell

CapturedCells ==
  {hist.captured.rows[pos[1] + 1][pos[2] + 1] : pos \in DOMAIN hist.captured.content}

\* C13: a restore writes each captured content sequence into the cell it was
\* captured from, also when a row was inserted or removed in between, and
\* leaves the rows and cells of the table as they are.
C13_RestoreByIdentity ==
  [][(hist'.kind \in {"restore", "restoreAgain"} /\ ~hist'.failed) =>
       /\ rows' = rows
       /\ \A cell \in CellsOf(SnapshotTable) \cap CapturedCells :
            children'[cell] =
              originalTableChildren[SnapshotTable][CapturedPosition(cell)]]_vars

\* C14: restoring twice in a row leaves the table as restoring once does.
C14_RestoreIdempotent ==
  [][hist'.kind = "restoreAgain" =>
       (children' = children /\ nodeText' = nodeText /\ rows' = rows)]_vars

\* C14 witness: a second restore in a row, after a first one that changed the
\* table (rows had been sorted or a paragraph added since the capture).
C14_Witness == hist.kind = "restoreAgain" /\ hist.changed /\ ~hist.failed

\* C15: when the table has fewer rows than the snapshot, a restore raises no
\* error and rewrites every cell that is left; a cell without a snapshot entry
\* keeps its content.
C15_RestoreSkipsMissingCells ==
  [][hist'.kind \in {"restore", "restoreAgain"} =>
       /\ Len(TableRows(SnapshotTable)) < Len(hist.captured.rows) =>
            /\ ~hist'.failed
            /\ \A pos \in Positions(SnapshotTable) :
                 children'[TableRows(SnapshotTable)[pos[1] + 1][pos[2] + 1]] =
                   originalTableChildren[SnapshotTable][pos]
       /\ \A pos \in Positions(SnapshotTable) \
                       DOMAIN originalTableChildren[SnapshotTable] :
            children'[TableRows(SnapshotTable)[pos[1] + 1][pos[2] + 1]] =
              children[TableRows(SnapshotTable)[pos[1] + 1][pos[2] + 1]]]_vars

(***************************************************************************)
(* Properties of $updateTableDataWithFormatting, checked under SpecFormat. *)
(***************************************************************************)
\* A cell of the written data whose content cannot be recreated.
RecreationFails(cellData) ==
  \E i \in 1..Len(cellData.serializedChildren) :
    cellData.serializedChildren[i].type = Unsupported

\* C16: when recreating a cell's content fails, also after some of its blocks
\* were appended, the target cell ends with exactly one unformatted block that
\* holds the cell's plain text (with nothing, if the text is blank): never
\* with recreated blocks, alone or followed by the fallback block.
C16_FallbackIsWholeCell ==
  call.fn = "updateTableDataWithFormatting" =>
    \A r \in 1..Len(call.data) :
      RecreationFails(call.data[r][1]) =>
        call.result[r] = FallbackCleared(<<>>, call.data[r][1].textContent)

(***************************************************************************)
(* Frame of a sort click, checked under SpecCmd.                           *)
(***************************************************************************)
\* What the cells of a table hold: their nodes and the texts of the nodes.
ContentOfTable(ch, text, t) ==
  [cell \in CellsOf(t) |-> [i \in 1..Len(ch[cell]) |-> <<ch[cell][i], text[ch[cell][i]]>>]]

C20_SnapshotDiscardedOnCancel ==
  (hist.kind = "click" /\ sortStates[hist.table] = NoSort) =>
    originalTableChildren[hist.table] = NoSnapshot

(***************************************************************************)
(* Properties of the plugin with one filter per table, checked under       *)
(* SpecView.                                                               *)
(***************************************************************************)
\* C17: when no table node is found for the DOM table, a sort click and a
\* filter change are abandoned with no state change: sort state, filter state,
\* snapshot, sort classes and cell content are as before the event.
C17_NotFoundChangesNothing ==
  [][(hist'.kind \in {"click", "filterChange"} /\ ~hist'.found) =>
       /\ sortStates' = sortStates
       /\ filterStates' = filterStates
       /\ originalTableChildren' = originalTableChildren
       /\ sortClass' = sortClass
       /\ hiddenRows' = hiddenRows
       /\ children' = children
       /\ nodeText' = nodeText]_vars

\* C19: after a filter change each table has at most one filtered column: a
\* text set on a column is the only filter of its table, whatever column was
\* filtered before, and a blank text leaves the table with no filter.
C19_SingleFilterColumn ==
  /\ \A t \in Tables : Cardinality(DOMAIN filterStates[t]) <= 1
  /\ hist.kind = "filterChange" =>
       filterStates[hist.table] =
         IF trim(hist.value) = <<>> THEN NoFilters
         ELSE (hist.columnIndex :> trim(hist.value))

\* C19 witness: a filter was set on a column of a table that had a filter on
\* another column.
C19_Witness ==
  /\ hist.kind = "filterChange"
  /\ hist.prevFilter # NoFilters
  /\ hist.columnIndex \notin DOMAIN hist.prevFilter
  /\ filterStates[hist.table] # NoFilters

(***************************************************************************)
(* Clicks and renders in any order, checked under SpecRapid.               *)
(***************************************************************************)
\* C21: each sort click observes the sort state and the snapshot map the
\* previous click on the table wrote: a click on the column of the previous
\* click advances the state one more step and keeps the stored snapshot,
\* whether or not the component has rendered in between.
C21_ClickSeesPreviousClick ==
  [][(/\ handler' = handler
      /\ hist.kind = "click" /\ hist'.kind = "click"
      /\ hist'.table = hist.table /\ hist'.columnIndex = hist.columnIndex) =>
       /\ sortStates'[hist.table] =
            NextSortState(sortStates[hist.table], hist.columnIndex)
       /\ originalTableChildren[hist.table] # NoSnapshot =>
            originalTableChildren'[hist.table] = originalTableChildren[hist.table]]_vars

(***************************************************************************)
(* filterTableData applied to its own result, checked under SpecPure.      *)
(***************************************************************************)
\* C22: filterTableData applied twice with the same filters gives the rows it
\* gives applied once.
C22_FilterIdempotent ==
  call.fn = "filterTableData" =>
    filterTableData(call.result, call.filters) = call.result

\* C22 witness: a filter that removed some data rows and kept others.
C22_Witness ==
  /\ call.fn = "filterTableData"
  /\ Len(call.result) > 1
  /\ Len(call.result) < Len(call.data)

(***************************************************************************)
(* The snapshot of the plugin with one filter per table, checked under     *)
(* SpecView.                                                               *)
(***************************************************************************)
\* C23: the first sort click or filter change applied to a table that has no
\* snapshot captures one, and captures the table as it is before any cell is
\* rewritten.
C23_FirstDirectiveCaptures ==
  [][(/\ handler' = handler
      /\ hist'.kind \in {"click", "filterChange"}
      /\ hist'.found
      /\ originalTableChildren[hist'.table] = NoSnapshot) =>
       originalTableChildren'[hist'.table] =
         captureOriginalTableChildren(Editor, hist'.table)]_vars

\* C27: on every sort click that finds its table, the first one included,
\* applyTableView is given the snapshot captured for the table: the snapshot
\* the click stored is the one it passes on, never an absent one.
C27_ViewGetsSnapshot ==
  (hist.kind = "click" /\ hist.found) =>
    /\ hist.viewSnapshot # NoSnapshot
    /\ hist.viewSnapshot = originalTableChildren[hist.table]

(***************************************************************************)
(* Capturing once, checked under SpecRapid.                                *)
(***************************************************************************)
\* C24: the content of a table is captured at most once: a click on a table
\* that has a snapshot neither captures again nor replaces the snapshot.
C24_CapturedOnce ==
  [][\A t \in Tables :
       originalTableChildren[t] # NoSnapshot =>
         originalTableChildren'[t] = originalTableChildren[t]]_vars

(* The order of reads and writes in one write-back, checked under          *)
(* SpecSnapshot.                                                           *)
SortDirections == {"asc", "desc"}

\* The write-backs a sort can make in the current state: one per table,
\* column and direction.
SortedDataOf(t, columnIndex, direction) ==
  sortTableCellData(getTableCellData(Editor, t), columnIndex, direction)

ReadsBeforeWrites(ops) ==
  \A i \in DOMAIN ops : \A j \in DOMAIN ops :
    (i < j /\ ops[i].op # "read") => ops[j].op # "read"

\* C25: in one call of $updateTableDataWithDirectMovement every read of a
\* cell's content comes before the first clear or append: no read follows a
\* write.
C25_ReadsBeforeWrites ==
  \A t \in Tables : \A columnIndex \in 0..(NumCols(t) - 1) : \A direction \in SortDirections :
    ReadsBeforeWrites(directMovementOps(Editor, t, SortedDataOf(t, columnIndex, direction)))

\* C25 witness: after a sort was written back, a write-back that reads the
\* children of a source cell and later clears that cell and another one.
C25_Witness ==
  /\ hist.kind = "sort"
  /\ \E t \in Tables : \E columnIndex \in 0..(NumCols(t) - 1) : \E direction \in SortDirections :
       \E ops \in {directMovementOps(Editor, t, SortedDataOf(t, columnIndex, direction))} :
         \E i \in DOMAIN ops : \E j \in DOMAIN ops : \E k \in DOMAIN ops :
           /\ i > Len(ReadTableOps(t)) /\ i < j /\ j < k
           /\ ops[i].op = "read" /\ ops[j].op = "clear" /\ ops[k].op = "clear"
           /\ ops[j].cell # ops[k].cell /\ ops[i].cell = ops[j].cell

\* The positions of table t whose requested cell is the cell already there.
KeptPositions(t, data) ==
  {pos \in (DOMAIN data) \X (1..NumCols(t)) :
     /\ pos[1] \in DOMAIN TableRows(t)
     /\ data[pos[1]][pos[2]].cellKey = TableRows(t)[pos[1]][pos[2]]}

\* C26: a cell whose requested key is its own key is neither cleared nor
\* appended to by $updateTableDataWithDirectMovement, and its content sequence
\* is left as it was.
C26_KeptCellUntouched ==
  \A t \in Tables : \A columnIndex \in 0..(NumCols(t) - 1) : \A direction \in SortDirections :
    \E data \in {SortedDataOf(t, columnIndex, direction)} :
      \E ops \in {directMovementOps(Editor, t, data)} :
        \E after \in {updateTableDataWithDirectMovement(Editor, t, data)} :
          \A pos \in KeptPositions(t, data) :
            LET cell == TableRows(t)[pos[1]][pos[2]]
            IN /\ \A i \in DOMAIN ops : ops[i].cell = cell => ops[i].op = "read"
               /\ after.children[cell] = children[cell]

\* C26 witness: after a sort was written back, a write-back that keeps a cell
\* with content in place and moves the content of another cell.
C26_Witness ==
  /\ hist.kind = "sort"
  /\ \E t \in Tables : \E columnIndex \in 0..(NumCols(t) - 1) : \E direction \in SortDirections :
       \E data \in {SortedDataOf(t, columnIndex, direction)} :
         /\ \E pos \in KeptPositions(t, data) : children[TableRows(t)[pos[1]][pos[2]]] # <<>>
         /\ updateTableDataWithDirectMovement(Editor, t, data).children # children

(* The write-back that matches cells by text, checked under SpecText. *)
\* C28: after the text-matching $updateTableDataWithDirectMovement has written
\* a permutation of the data rows, the text of every cell is the text
\* requested for its position, and a cell whose requested text is not empty
\* has content, also when several cells have the same text.
C28_TextWriteGivesRequestedTexts ==
  hist.kind = "textWrite" =>
    \A r \in DOMAIN hist.requested : \A c \in DOMAIN hist.requested[r] :
      LET cell == TableRows(hist.table)[r][c]
      IN /\ getTextContent(Editor, cell) = hist.requested[r][c]
         /\ hist.requested[r][c] # <<>> => children[cell] # <<>>

(* The sort classes of the header cells, checked under SpecCmd. *)
\* C29: a header cell has the class sort-asc or sort-desc exactly when the
\* sort state of its table names its column with that direction; a table
\* with no sort state has no header with a sort class.
C29_SortClassMatchesSortState ==
  \A t \in Tables : \A c \in 0..(NumCols(t) - 1) :
    /\ sortClass[t][c] = "sort-asc" <=> sortStates[t] = SortState(c, "asc")
    /\ sortClass[t][c] = "sort-desc" <=> sortStates[t] = SortState(c, "desc")

(* The listeners of TableStickyScrollerPlugin, checked under SpecSticky. *)
\* C30: after the cleanup of the effect none of the scroll and resize
\* listeners the effect registered on window and on the editor scroller is
\* still registered.
C30_ListenersRemovedOnCleanup ==
  hist.kind = "unmount" => hist.registered \cap listeners = {}

(* The sticky headers of TableHeaderStickyPlugin, checked under SpecHeader. *)
\* C31: once the plugin is unmounted and every timer has fired, whatever the
\* order of the clicks, the timers and the unmount, window has no scroll
\* listener of the plugin and the document has no sticky header container.
C31_NothingLeftAfterUnmount ==
  (instance > 0 /\ ~mounted /\ timers = {}) =>
    /\ ~\E l \in listeners : l.target = "window" /\ l.type = "scroll"
    /\ containers = {}

\* The effect has run and nothing of the plugin is pending: no timer, and the
\* ref holds the map of the last render.
HeaderSettled == mounted /\ timers = {} /\ stickyHeadersRef = stickyHeaders

\* C32: when the effect has run and settled, every table of the editor that
\* carries the attribute data-sticky-table-id has an entry with that id in
\* stickyHeaders and a sticky container in the document, also after the
\* effect was cleaned up and run again.
C32_MarkedTablesHaveHeaders ==
  HeaderSettled =>
    \A e \in findAllTables(tableElements) :
      tableElements[e].attr =>
        /\ e \in stickyHeaders
        /\ \E c \in containers : c.id = e

(* The sticky header of a removed table, checked under SpecHeaderLive. *)
\* C33: when a table is removed from the editor while the plugin is mounted,
\* its sticky container is eventually removed from the document and its entry
\* from stickyHeaders (or the plugin is unmounted), also when a table was
\* added in the same commit.
C33_RemovedTableLosesHeader ==
  \A e \in HeaderTables :
    (mounted /\ tableElements[e].state = "removed") ~>
      \/ ~mounted
      \/ /\ e \notin stickyHeaders
         /\ ~\E c \in containers : c.id = e

====
